---- MODULE Spec2Model ----
(***************************************************************************)
(* A model of tools/workflow_runner.py: the local workflow runner.         *)
(* One run of WorkflowRunner.run() is a state machine: session binding,    *)
(* Kahn's scheduling loop of get_job_order, the job loop of run() and the  *)
(* step loop of run_job().                                                 *)
(***************************************************************************)
EXTENDS Integers, Sequences, FiniteSets, TLC

\* ------------------------------------------------------------------ bounds

\* The largest number of jobs of a workflow document.
MaxJobs == 3

\* The largest number of steps of a job.
MaxSteps == 2

\* The deepest nesting of mappings inside the inputs mapping.
MaxDepth == 2

\* The most lines the scripts of a run append to the outputs-sink.
MaxSinkLines == 2

\* ------------------------------------------------------------ value pools

\* Job names, in the order the document lists them (dict insertion order).
\* A workflow of n jobs holds the first n names; a needs entry may name any
\* of the first MaxJobs names, so with n < MaxJobs it can name a missing job.
JobNamePool == <<"a", "b", "c", "d", "e">>

AllNames == { JobNamePool[n] : n \in 1..MaxJobs }

\* A text that the expression language takes apart is a sequence of tokens,
\* the separator "." being a token of its own: job.started is
\* <<"job", ".", "started">>.  Job names are single tokens.
HOSTNAME == <<"HOSTNAME">>

SESSION_PORT == <<"SESSION_PORT">>

slug == <<"slug">>

job_started == <<"job", ".", "started">>

\* `work_dir / 'step_outputs.txt'`, the outputs-sink.
step_outputs_txt == <<"step_outputs", ".", "txt">>

\* `work_dir / 'inputs.sh'`
inputs_sh == <<"inputs", ".", "sh">>

\* The output maps a script can leave behind (by coordination files or by
\* the outputs-sink): nothing, a host name, or a dotted key.
OutMaps ==
    { [k \in {} |-> ""],
      [k \in {HOSTNAME} |-> <<"node1">>],
      [k \in {HOSTNAME} |-> <<"node2">>],
      [k \in {job_started} |-> <<"1">>] }

\* ----------------------------------------------------------------- helpers

Range(s) == { s[n] : n \in DOMAIN s }

\* The position of x in the sequence s (0 when absent): list.index.
IndexOf(s, x) == IF x \in Range(s) THEN CHOOSE n \in DOMAIN s : s[n] = x ELSE 0

\* SubSeq of s keeping the elements that satisfy Keep, in order.
RECURSIVE SelectIn(_, _)
SelectIn(s, keep) ==
    IF s = <<>> THEN <<>>
    ELSE IF Head(s) \in keep THEN <<Head(s)>> \o SelectIn(Tail(s), keep)
         ELSE SelectIn(Tail(s), keep)

\* The empty dict.
EmptyMap == [k \in {} |-> ""]

\* A value of the inputs mapping: a string, or a mapping of keys to values.
StrValue(text) == [type |-> "str", text |-> text]

DictValue(items) == [type |-> "dict", items |-> items]

\* The other values a document, an override or an expression can hold: a
\* boolean, an integer, a list of values.
BoolValue(b) == [type |-> "bool", bool |-> b]

IntValue(n) == [type |-> "int", int |-> n]

ListValue(elems) == [type |-> "list", elems |-> elems]

\* The inputs main() always provides: the mock values of the resource.
MainInputs ==
    DictValue([k \in {<<"resource">>} |->
        DictValue([f \in {<<"ip">>, <<"id">>, <<"schedulerType">>} |->
            IF f = <<"ip">> THEN StrValue(<<"localhost">>)
            ELSE IF f = <<"id">> THEN StrValue(<<"local-resource">>)
            ELSE StrValue(<<>>)])])

\* The host of a run: the files of the working directory with their
\* contents, the number of subprocesses started, and the files the runner
\* itself has written.  FreshHost is the directory main() creates, seen
\* without the subdirectories main() copies the workflow and utils into.
FreshHost == [tracked |-> TRUE, files |-> EmptyMap, started |-> 0, written |-> {}]

\* The host is not tracked: what a step reads back from the working
\* directory is then any map of OutMaps.
Untracked == [tracked |-> FALSE, files |-> EmptyMap, started |-> 0, written |-> {}]

\* An update that keeps the value a key already has.
Update_KeepFirst(m1, m2) ==
    [k \in DOMAIN m1 \cup DOMAIN m2 |-> IF k \in DOMAIN m1 THEN m1[k] ELSE m2[k]]

\* dict.update: the entries of m2 replace or extend those of m1.
Update(m1, m2) ==
    [k \in DOMAIN m1 \cup DOMAIN m2 |-> IF k \in DOMAIN m2 THEN m2[k] ELSE m1[k]]

\* ------------------------------------------------------- workflow document

\* A step record of the document, by its shape:
\*   "run"             {run: <command string>}
\*   "run_nonstr"      {run: <a scalar that is no string>}; substitute_variables
\*                     returns it unchanged and _indent then fails on it
\*   "run_list"        {run: <a list>}; substitute_variables rebuilds the list
\*                     and _indent fails on it with an error text of its own
\*   "uses_job_runner" {uses: marketplace/job_runner, with: {script_path: ...}}
\*   "uses_other"      {uses: <checkout, update-session or an unknown action>}
StepKinds == {"run", "run_nonstr", "run_list", "uses_job_runner", "uses_other"}

\* The step lists a job of the model may have.
StepLists ==
    {<<"uses_job_runner">>} \cup
    { <<k>> \o [n \in 1..(MaxSteps - 1) |-> "run"] : k \in {"run", "run_nonstr"} }

\* The needs entry of a job record as the document writes it: absent (the
\* default []), a single string, or a list of names.
NeedsDoc(S) ==
    IF Cardinality(S) = 1
    THEN [isstr |-> TRUE, str |-> CHOOSE x \in S : TRUE, list |-> <<>>]
    ELSE [isstr |-> FALSE, str |-> "", list |-> SelectIn(JobNamePool, S)]

\* A document of n jobs named by the first n pool names, job j with the
\* needs entry of the set nd[j] and the step list st[j]; it declares one
\* session and no inputs.
MakeWorkflow(n, nd, st) ==
    [order |-> SubSeq(JobNamePool, 1, n),
     needs |-> [j \in Range(SubSeq(JobNamePool, 1, n)) |-> NeedsDoc(nd[j])],
     steps |-> st,
     sessions |-> <<"session">>,
     inputs |-> <<>>]

\* ------------------------------------------------------------------- state

VARIABLES
    workflow,      \* self.workflow, the loaded document
    dry_run,       \* context.dry_run
    sessions,      \* context.sessions
    job_outputs,   \* context.job_outputs: job name -> JobOutput
    pc,            \* the position of run()
    dependencies,  \* get_job_order: job name -> set of unplaced needs
    result,        \* get_job_order: the order built so far
    no_deps,       \* get_job_order: the ready queue
    job_order,     \* run(): the order get_job_order returned
    pos,           \* run(): index into job_order of the job at hand
    all_success,   \* run(): the verdict so far
    output,        \* run_job: the JobOutput under construction
    i,             \* run_job: index of the step at hand
    dispatched,    \* history: job, step index and error of every run_step call
    recorded,      \* history: the job names in the order job_outputs was assigned
    retval,        \* the boolean run() returned
    remaining,     \* the job names of the ValueError of get_job_order
    inputs,        \* context.inputs
    host,          \* the working directory and the processes started in it
    step_outputs,  \* history: the maps the steps of the job at hand returned
    template,      \* a value handed to substitute_variables
    resolved,      \* history: the values substitute_variables returned
    main           \* main(): its arguments, cli_inputs, work_dir, exit code

vars == <<workflow, dry_run, sessions, job_outputs, pc, dependencies, result,
          no_deps, job_order, pos, all_success, output, i, dispatched,
          recorded, retval, remaining, inputs, host, step_outputs, template,
          resolved, main>>

\* JobOutput(): outputs {}, success True, error None.
NoError == "None"

JobOutput == [outputs |-> EmptyMap, success |-> TRUE, error |-> NoError]

\* `needs = job_config.get('needs', []); if isinstance(needs, str): needs = [needs]`
NeedsList(wf, job_name) ==
    IF wf.needs[job_name].isstr THEN <<wf.needs[job_name].str>>
    ELSE wf.needs[job_name].list

\* The frame of main(): args as parsed from the command line, cli_inputs,
\* whether work_dir exists, and how the process ends (exit_code -1 while it
\* runs; error is the exception that left main(), if one did).
MainFrame(workflow_exists, args_inputs) ==
    [args |-> [workflow_exists |-> workflow_exists, inputs |-> args_inputs],
     cli_inputs |-> <<>>,
     work_dir |-> "none",
     exit_code |-> -1,
     error |-> NoError]

\* The runner is constructed and run without main().
NotCalled == MainFrame(TRUE, <<>>)

\* The locals of run() before it runs, and no job output recorded.
InitLocals ==
    /\ job_outputs = [j \in {} |-> JobOutput]
    /\ dependencies = [j \in {} |-> {}]
    /\ result = <<>>
    /\ no_deps = <<>>
    /\ job_order = <<>>
    /\ pos = 0
    /\ all_success = TRUE
    /\ output = JobOutput
    /\ i = 0
    /\ dispatched = <<>>
    /\ recorded = <<>>
    /\ retval = FALSE
    /\ remaining = {}
    /\ step_outputs = <<>>
    /\ resolved = <<>>

\* run() is about to be called on a runner constructed directly.
InitRun ==
    /\ pc = "start"
    /\ main = NotCalled
    /\ InitLocals

\* The context main() constructs: no session bound, no job output recorded.
InitContext ==
    /\ sessions = EmptyMap
    /\ InitRun

\* A run, live or dry, of any document of the bounds.
Init ==
    /\ \E n \in 1..MaxJobs :
          \E nd \in [Range(SubSeq(JobNamePool, 1, n)) -> SUBSET AllNames],
             st \in [Range(SubSeq(JobNamePool, 1, n)) -> StepLists] :
              workflow = MakeWorkflow(n, nd, st)
    /\ dry_run \in BOOLEAN
    /\ inputs = MainInputs
    /\ host = Untracked
    /\ template = <<>>
    /\ InitContext

\* --------------------------------------------------------- get_job_order

\* The dependency graph: every job's needs as a set.
BuildDependencies(wf) ==
    [j \in Range(wf.order) |-> Range(NeedsList(wf, j))]

\* `no_deps = [j for j, deps in dependencies.items() if not deps]`
InitialNoDeps(wf, deps) ==
    SelectIn(wf.order, { j \in DOMAIN deps : deps[j] = {} })

\* `deps.remove(job)` for every job that has it.
RemoveJob(deps, job) ==
    [o \in DOMAIN deps |-> IF job \in deps[o] THEN deps[o] \ {job} ELSE deps[o]]

\* Released without the test that the job's set has become empty.
Released_NoEmptyTest(wf, deps, job, res) ==
    SelectIn(wf.order, { o \in DOMAIN deps : job \in deps[o] /\ o \notin Range(res) })

\* The jobs the inner for loop appends to no_deps, in dict order.
Released(wf, deps, job, res) ==
    SelectIn(wf.order,
             { o \in DOMAIN deps :
                 /\ job \in deps[o]
                 /\ deps[o] \ {job} = {}
                 /\ o \notin Range(res) })

\* Every declared session bound anew, the bound ones as well.
InitSessions_Rebind(bound, declared) ==
    [s \in DOMAIN bound \cup Range(declared) |->
        IF s \in Range(declared) THEN <<"local-session-", s>> ELSE bound[s]]

\* `for session_name in sessions: if session_name not in context.sessions:
\*  context.sessions[session_name] = f"local-session-{session_name}"`
InitSessions(bound, declared) ==
    [s \in DOMAIN bound \cup Range(declared) |->
        IF s \in DOMAIN bound THEN bound[s] ELSE <<"local-session-", s>>]

\* run() up to the call of get_job_order, and get_job_order up to its loop.
RunBegin ==
    /\ pc = "start"
    /\ sessions' = InitSessions(sessions, workflow.sessions)
    /\ dependencies' = BuildDependencies(workflow)
    /\ result' = <<>>
    /\ no_deps' = InitialNoDeps(workflow, BuildDependencies(workflow))
    /\ pc' = "sched"
    /\ UNCHANGED <<workflow, dry_run, job_outputs, job_order, pos, all_success,
                   output, i, dispatched, recorded, retval, remaining,
                   inputs, host, step_outputs, template, resolved, main>>

\* no_deps.pop() in place of no_deps.pop(0): the queue used as a stack.
Pop_Last(q) == [job |-> q[Len(q)], rest |-> SubSeq(q, 1, Len(q) - 1)]

\* `job = no_deps.pop(0)`
Pop(q) == [job |-> Head(q), rest |-> Tail(q)]

\* The sets of dependencies are the needs lists of the document themselves:
\* a job removed from a set is removed from the list.
DocumentAfterRemove_Shared(wf, job) ==
    [wf EXCEPT !.needs =
        [j \in DOMAIN wf.needs |->
            IF wf.needs[j].isstr THEN wf.needs[j]
            ELSE [wf.needs[j] EXCEPT
                     !.list = SelectIn(wf.needs[j].list,
                                       Range(wf.needs[j].list) \ {job})]]]

\* The document after `deps.remove(job)`: each deps is the set built by
\* `set(needs)`, an object of its own, so the needs of the document stay.
DocumentAfterRemove(wf, job) == wf

\* One iteration of `while no_deps`.
SchedLoop ==
    /\ pc = "sched"
    /\ no_deps # <<>>
    /\ LET job == Pop(no_deps).job
           res == Append(result, job)
       IN /\ result' = res
          /\ dependencies' = RemoveJob(dependencies, job)
          /\ no_deps' = Pop(no_deps).rest \o Released(workflow, dependencies, job, res)
          /\ workflow' = DocumentAfterRemove(workflow, job)
    /\ UNCHANGED <<dry_run, sessions, job_outputs, pc, job_order, pos,
                   all_success, output, i, dispatched, recorded, retval, remaining,
                   inputs, host, step_outputs, template, resolved, main>>

\* No order taken for a failure.
OrderIsShort_Never(wf, res) == FALSE

\* Only an empty order taken for a failure.
OrderIsShort_OnlyEmpty(wf, res) == Len(res) = 0

\* `len(result) != len(jobs)`
OrderIsShort(wf, res) == Len(res) # Len(wf.order)

\* `remaining = set(jobs.keys()) - set(result)`
Remaining(wf, res) == Range(wf.order) \ Range(res)

\* The loop has ended and the order is short: the ValueError leaves run().
SchedRaise ==
    /\ pc = "sched"
    /\ no_deps = <<>>
    /\ OrderIsShort(workflow, result)
    /\ remaining' = Remaining(workflow, result)
    /\ pc' = "raised"
    /\ UNCHANGED <<workflow, dry_run, sessions, job_outputs, dependencies, result,
                   no_deps, job_order, pos, all_success, output, i, dispatched, recorded,
                   retval,
                   inputs, host, step_outputs, template, resolved, main>>

\* The loop has ended with every job placed: run() starts its job loop.
SchedReturn ==
    /\ pc = "sched"
    /\ no_deps = <<>>
    /\ ~OrderIsShort(workflow, result)
    /\ job_order' = result
    /\ all_success' = TRUE
    /\ pos' = 1
    /\ pc' = "jobs"
    /\ UNCHANGED <<workflow, dry_run, sessions, job_outputs, dependencies, result,
                   no_deps, output, i, dispatched, recorded, retval, remaining,
                   inputs, host, step_outputs, template, resolved, main>>

\* ------------------------------------------------------ template resolution

StartsWith(text, prefix) ==
    Len(text) >= Len(prefix) /\ SubSeq(text, 1, Len(prefix)) = prefix

\* str.split(sep): the pieces of text between the separator tokens.
RECURSIVE Split(_, _)
Split(text, sep) ==
    IF \A n \in DOMAIN text : text[n] # sep THEN <<text>>
    ELSE LET at == CHOOSE n \in DOMAIN text :
                      text[n] = sep /\ \A m \in 1..(n - 1) : text[m] # sep
         IN <<SubSeq(text, 1, at - 1)>> \o Split(SubSeq(text, at + 1, Len(text)), sep)

\* sep.join(parts)
RECURSIVE Join(_, _)
Join(parts, sep) ==
    IF parts = <<>> THEN <<>>
    ELSE IF Len(parts) = 1 THEN parts[1]
    ELSE parts[1] \o <<sep>> \o Join(Tail(parts), sep)

\* parts[2] taken for the output name: a key with a dot loses its tail.
OutputName_FirstPart(parts) == parts[3]

\* `output_name = '.'.join(parts[2:])`
OutputName(parts) == Join(SubSeq(parts, 3, Len(parts)), ".")

\* A key absent from a mapping read as None.
Get_None(items, part) ==
    IF part \in DOMAIN items THEN items[part] ELSE StrValue(<<"None">>)

\* `current.get(part, '')`
Get(items, part) ==
    IF part \in DOMAIN items THEN items[part] ELSE StrValue(<<>>)

\* The loop of _get_nested_value over the parts of the path.
RECURSIVE Walk(_, _)
Walk(current, parts) ==
    IF parts = <<>> THEN current
    ELSE IF current.type = "dict"
         THEN Walk(Get(current.items, Head(parts)), Tail(parts))
         ELSE StrValue(<<>>)

\* _get_nested_value: `parts = path.split('.')`, then the loop.
get_nested_value(obj, path) == Walk(obj, Split(path, "."))

\* The whitespace tokens.
Whitespace == {" ", "\n"}

\* text.strip()
RECURSIVE Strip(_)
Strip(text) ==
    IF text = <<>> THEN <<>>
    ELSE IF Head(text) \in Whitespace THEN Strip(Tail(text))
    ELSE IF text[Len(text)] \in Whitespace THEN Strip(SubSeq(text, 1, Len(text) - 1))
    ELSE text

\* The tokens int() reads as a number, with the number each denotes.
Numerals == {"0", "5", "42", "007"}

NumeralValue(token) ==
    CASE token = "0" -> 0
      [] token = "5" -> 5
      [] token = "42" -> 42
      [] token = "007" -> 7

\* The right side of a comparison read as a path of the inputs where it
\* is one.
parse_literal_Evaluated(value) ==
    IF StartsWith(value, <<"inputs", ".">>)
    THEN get_nested_value(inputs, SubSeq(value, 3, Len(value)))
    ELSE StrValue(value)

\* _parse_literal: a value quoted at both ends loses the two quotes; then
\* true, false, the empty text, a number; any other text is itself.
parse_literal(value) ==
    IF \/ value # <<>> /\ Head(value) = "'" /\ value[Len(value)] = "'"
       \/ value # <<>> /\ Head(value) = "\"" /\ value[Len(value)] = "\""
    THEN StrValue(SubSeq(value, 2, Len(value) - 1))
    ELSE IF value = <<"true">> THEN BoolValue(TRUE)
    ELSE IF value = <<"false">> THEN BoolValue(FALSE)
    ELSE IF value = <<>> THEN StrValue(<<>>)
    ELSE IF Len(value) = 1 /\ value[1] \in Numerals
         THEN IntValue(NumeralValue(value[1]))
    ELSE StrValue(value)

\* The number a boolean or an integer compares as.
Number(value) ==
    IF value.type = "bool" THEN (IF value.bool THEN 1 ELSE 0) ELSE value.int

\* `left_val == right_val`: values of one type compare by content, a
\* boolean and an integer as numbers, any other pair is unequal.
PyEquals(left_val, right_val) ==
    IF left_val.type \in {"bool", "int"} /\ right_val.type \in {"bool", "int"}
    THEN Number(left_val) = Number(right_val)
    ELSE IF left_val.type # right_val.type THEN FALSE
    ELSE left_val = right_val

\* The truth value any() and all() take a value for.
Truthy(value) ==
    CASE value.type = "str" -> value.text # <<>>
      [] value.type = "bool" -> value.bool
      [] value.type = "int" -> value.int # 0
      [] value.type = "dict" -> DOMAIN value.items # {}
      [] value.type = "list" -> value.elems # <<>>

\* context.env_vars as main() builds it, and the process environment.
env_vars ==
    [k \in {<<"PW_JOB_NUMBER">>, <<"PW_PLATFORM_HOST">>, <<"DEBUG">>} |->
        IF k = <<"PW_JOB_NUMBER">> THEN <<"1">>
        ELSE IF k = <<"PW_PLATFORM_HOST">> THEN <<"localhost">>
        ELSE <<>>]

os_environ == [k \in {<<"HOME">>} |-> <<"/root">>]

\* _evaluate_expression, branch by branch in the order of the code:
\* ' != ', ' == ', ' || ', ' && ', then inputs., sessions., needs., env.,
\* and the fall-through that returns the expression as it is.  The four
\* operators with their two blanks are one token each; extra_context is
\* empty at every call the runner makes.
RECURSIVE evaluate_expression(_, _)
evaluate_expression(expr, outs) ==
    IF " != " \in Range(expr)
    THEN LET at == IndexOf(expr, " != ")
             left_val == evaluate_expression(Strip(SubSeq(expr, 1, at - 1)), outs)
             right_val == parse_literal(Strip(SubSeq(expr, at + 1, Len(expr))))
         IN BoolValue(~PyEquals(left_val, right_val))
    ELSE IF " == " \in Range(expr)
    THEN LET at == IndexOf(expr, " == ")
             left_val == evaluate_expression(Strip(SubSeq(expr, 1, at - 1)), outs)
             right_val == parse_literal(Strip(SubSeq(expr, at + 1, Len(expr))))
         IN BoolValue(PyEquals(left_val, right_val))
    ELSE IF " || " \in Range(expr)
    THEN LET parts == Split(expr, " || ")
         IN BoolValue(\E n \in DOMAIN parts :
                          Truthy(evaluate_expression(Strip(parts[n]), outs)))
    ELSE IF " && " \in Range(expr)
    THEN LET parts == Split(expr, " && ")
         IN BoolValue(\A n \in DOMAIN parts :
                          Truthy(evaluate_expression(Strip(parts[n]), outs)))
    ELSE IF StartsWith(expr, <<"inputs", ".">>)
    THEN get_nested_value(inputs, SubSeq(expr, 3, Len(expr)))
    ELSE IF StartsWith(expr, <<"sessions", ".">>)
    THEN LET session_name == SubSeq(expr, 3, Len(expr))
         IN IF Len(session_name) = 1 /\ session_name[1] \in DOMAIN sessions
            THEN StrValue(sessions[session_name[1]])
            ELSE StrValue(<<"session-">> \o session_name)
    ELSE IF StartsWith(expr, <<"needs", ".">>)
    THEN LET parts == Split(SubSeq(expr, 3, Len(expr)), ".")
         IN IF Len(parts) >= 3 /\ parts[2] = <<"outputs">>
            THEN IF \E j \in DOMAIN outs : parts[1] = <<j>>
                 THEN LET job_output == outs[parts[1][1]]
                      IN IF OutputName(parts) \in DOMAIN job_output.outputs
                         THEN StrValue(job_output.outputs[OutputName(parts)])
                         ELSE StrValue(<<>>)
                 ELSE StrValue(<<>>)
            ELSE StrValue(<<>>)
    ELSE IF StartsWith(expr, <<"env", ".">>)
    THEN LET env_name == SubSeq(expr, 3, Len(expr))
         IN IF env_name \in DOMAIN env_vars THEN StrValue(env_vars[env_name])
            ELSE IF env_name \in DOMAIN os_environ THEN StrValue(os_environ[env_name])
            ELSE StrValue(<<>>)
    ELSE StrValue(expr)

\* str(value) as text; the repr of a mapping or of a list is taken for one
\* token.
Str(value) ==
    CASE value.type = "str" -> value.text
      [] value.type = "bool" -> IF value.bool THEN <<"True">> ELSE <<"False">>
      [] value.type = "int" ->
             (CASE value.int = 0 -> <<"0">>
                [] value.int = 5 -> <<"5">>
                [] value.int = 7 -> <<"7">>
                [] value.int = 42 -> <<"42">>
                [] OTHER -> <<"<int>">>)
      [] value.type = "dict" -> <<"{...}">>
      [] value.type = "list" -> <<"[...]">>

\* What `\s*(.+?)\s*` can match between the two braces: something, with no
\* line break inside it once the whitespace around it is put aside.
Matchable(between) ==
    /\ between # <<>>
    /\ IF Strip(between) = <<>>
       THEN \E n \in DOMAIN between : between[n] # "\n"
       ELSE "\n" \notin Range(Strip(between))

\* An opening token left without its closing token takes the rest of the text.
Closing_Unclosed(text) ==
    IF \E n \in 3..Len(text) : text[n] = "}}" /\ Matchable(SubSeq(text, 2, n - 1))
    THEN CHOOSE n \in 3..Len(text) :
             /\ text[n] = "}}" /\ Matchable(SubSeq(text, 2, n - 1))
             /\ \A m \in 3..(n - 1) :
                    ~(text[m] = "}}" /\ Matchable(SubSeq(text, 2, m - 1)))
    ELSE IF Len(text) >= 2 THEN Len(text) ELSE 0

\* Where the placeholder that opens at the head of text closes: the first
\* closing token the pattern can reach, 0 when there is none.
Closing(text) ==
    IF \E n \in 3..Len(text) : text[n] = "}}" /\ Matchable(SubSeq(text, 2, n - 1))
    THEN CHOOSE n \in 3..Len(text) :
             /\ text[n] = "}}" /\ Matchable(SubSeq(text, 2, n - 1))
             /\ \A m \in 3..(n - 1) :
                    ~(text[m] = "}}" /\ Matchable(SubSeq(text, 2, m - 1)))
    ELSE 0

\* _substitute_string: every `${{ expr }}` the pattern matches, scanning
\* from the left, is replaced by str of the expression's value.
RECURSIVE substitute_string(_, _)
substitute_string(text, outs) ==
    IF text = <<>> THEN <<>>
    ELSE IF Head(text) = "${{" /\ Closing(text) # 0
         THEN LET close == Closing(text)
                  expr == Strip(SubSeq(text, 2, close - 1))
              IN Str(evaluate_expression(expr, outs))
                 \o substitute_string(SubSeq(text, close + 1, Len(text)), outs)
         ELSE <<Head(text)>> \o substitute_string(Tail(text), outs)

\* substitute_variables: a string is resolved, a mapping and a list are
\* rebuilt from their resolved members, any other value is returned as it is.
RECURSIVE substitute_variables(_, _)
substitute_variables(value, outs) ==
    IF value.type = "str" THEN StrValue(substitute_string(value.text, outs))
    ELSE IF value.type = "dict"
    THEN DictValue([k \in DOMAIN value.items |->
                       substitute_variables(value.items[k], outs)])
    ELSE IF value.type = "list"
    THEN ListValue([n \in DOMAIN value.elems |->
                       substitute_variables(value.elems[n], outs)])
    ELSE value

\* ---------------------------------------------------------------- run_step

\* str(e) of the exceptions a step can raise.
CommandFailed == "Command failed with exit code 1"

ScriptFailed == "Script failed with exit code 1"

TimedOut == "timed out after 300 seconds"

NotAString == "'int' object has no attribute 'splitlines'"

NotAStringList == "'list' object has no attribute 'splitlines'"

\* What a call does: it returns a map or raises, and leaves the host as h.
Returns(m, h) == [raised |-> FALSE, outputs |-> m, error |-> NoError, host |-> h]

Raises(e, h) == [raised |-> TRUE, outputs |-> EmptyMap, error |-> e, host |-> h]

\* What the script of a step does in the working directory: the files
\* it writes anew and the text it appends to the outputs-sink.
Program(write, append) == [write |-> write, append |-> append]

\* The scripts of the documents: one does nothing, the others write the
\* host name, the host name and the port, job.started (touch), the slug,
\* or append a line (a plain one, or one whose key is HOSTNAME) to the sink.
Programs ==
    { Program(EmptyMap, <<>>),
      Program([f \in {HOSTNAME} |-> <<" ", "node1", "\n">>], <<>>),
      Program([f \in {HOSTNAME, SESSION_PORT} |->
                  IF f = HOSTNAME THEN <<"node2", "\n">> ELSE <<"8080", "\n">>], <<>>),
      Program([f \in {job_started} |-> <<>>], <<>>),
      Program([f \in {slug} |-> <<"demo", "\n">>], <<>>),
      Program(EmptyMap, <<"k", "=", "v", "\n">>),
      Program(EmptyMap, <<" ", "HOSTNAME", " ", "=", " ", "sinkhost", "\n">>) }

\* The number of lines of the outputs-sink.
SinkLines(files) ==
    IF step_outputs_txt \in DOMAIN files
    THEN Cardinality({ n \in DOMAIN files[step_outputs_txt] :
                          files[step_outputs_txt][n] = "\n" })
    ELSE 0

\* The programs that keep the sink within its bound.
Runnable(files) ==
    { p \in Programs : p.append = <<>> \/ SinkLines(files) < MaxSinkLines }

\* The working directory after the program has run.
Execute(files, p) ==
    LET written == Update(files, p.write)
    IN IF p.append = <<>> THEN written
       ELSE Update(written,
               [f \in {step_outputs_txt} |->
                   (IF f \in DOMAIN files THEN files[f] ELSE <<>>) \o p.append])

\* The outputs-sink removed before every process.
Process_FreshSink(h, p) ==
    [h EXCEPT !.files = Execute([f \in DOMAIN h.files \ {step_outputs_txt} |->
                                    h.files[f]], p),
              !.started = @ + 1]

\* The coordination files run_shell_command reads back, slug left out.
CommandFiles_NoSlug == {HOSTNAME, SESSION_PORT}

\* subprocess.run: one more process, and the program's effect.
Process(h, p) == [h EXCEPT !.files = Execute(h.files, p), !.started = @ + 1]

\* The coordination files read back without .strip().
ReadCoordination_Raw(files, names) ==
    [f \in { g \in names : g \in DOMAIN files } |-> files[f]]

\* `for coord_file in [...]: if coord_path.exists():
\*  outputs[coord_file] = coord_path.read_text().strip()`
ReadCoordination(files, names) ==
    [f \in { g \in names : g \in DOMAIN files } |-> Strip(files[f])]

\* `key, value = line.split('=', 1); outputs[key.strip()] = value.strip()`
ParseLine(line) ==
    LET at == CHOOSE n \in DOMAIN line :
                  line[n] = "=" /\ \A m \in 1..(n - 1) : line[m] # "="
    IN [k \in {Strip(SubSeq(line, 1, at - 1))} |->
           Strip(SubSeq(line, at + 1, Len(line)))]

\* The loop over the lines of the sink: a line without "=" is passed over.
RECURSIVE ParseLines(_, _)
ParseLines(lines, outputs) ==
    IF lines = <<>> THEN outputs
    ELSE ParseLines(Tail(lines),
                    IF "=" \in Range(Head(lines))
                    THEN Update(outputs, ParseLine(Head(lines)))
                    ELSE outputs)

\* `if outputs_file.exists(): for line in outputs_file.read_text().splitlines()`
ParseSink(files) ==
    IF step_outputs_txt \in DOMAIN files
    THEN ParseLines(Split(files[step_outputs_txt], "\n"), EmptyMap)
    ELSE EmptyMap

\* The coordination files run_shell_command reads back.
CommandFiles == {HOSTNAME, SESSION_PORT, slug}

\* The outputs begun anew before the coordination files are read.
ReadCommandOutputs_Reset(files) == ReadCoordination(files, CommandFiles)

\* The outputs of a command: the sink parsed, then the coordination files.
ReadCommandOutputs(files) ==
    Update(ParseSink(files), ReadCoordination(files, CommandFiles))

\* run_shell_command: _indent fails on a command that is no string; a dry
\* run returns {} before any process is started; otherwise the subprocess
\* exits 0 and the outputs are read back, exits non-zero, or times out.
run_shell_command(kind, dry, h) ==
    IF kind = "run_nonstr" THEN {Raises(NotAString, h)}
    ELSE IF kind = "run_list" THEN {Raises(NotAStringList, h)}
    ELSE IF dry THEN {Returns(EmptyMap, h)}
    ELSE IF ~h.tracked
    THEN { Returns(m, h) : m \in OutMaps }
         \cup {Raises(CommandFailed, h), Raises(TimedOut, h)}
    ELSE UNION { LET after == Process(h, p)
                 IN {Returns(ReadCommandOutputs(after.files), after),
                     Raises(CommandFailed, after),
                     Raises(TimedOut, after)} : p \in Runnable(h.files) }

\* The coordination files _action_job_runner reads back.
JobRunnerFiles == {HOSTNAME, SESSION_PORT}

\* The text _create_inputs_sh writes, up to its export lines.
InputsSh == <<"#!/bin/bash", "\n", "# Auto-generated inputs for local testing", "\n">>

\* _create_inputs_sh: inputs.sh is written into the working directory.
create_inputs_sh(h) ==
    [h EXCEPT !.files = Update(@, [f \in {inputs_sh} |-> InputsSh]),
              !.written = @ \cup {inputs_sh}]

\* _action_job_runner with a script that exists: inputs.sh is written,
\* the script runs, and it exits 0 and its coordination files are read
\* back, exits non-zero, or times out.
action_job_runner(h) ==
    IF ~h.tracked
    THEN { Returns(m, h) : m \in { o \in OutMaps : DOMAIN o \subseteq JobRunnerFiles } }
         \cup {Raises(ScriptFailed, h), Raises(TimedOut, h)}
    ELSE UNION { LET after == Process(create_inputs_sh(h), p)
                 IN {Returns(ReadCoordination(after.files, JobRunnerFiles), after),
                     Raises(ScriptFailed, after),
                     Raises(TimedOut, after)} : p \in Runnable(h.files) }

\* An action that is not known raises instead of returning the stub.
run_action_UnknownFails(kind, dry, h) ==
    IF dry THEN {Returns(EmptyMap, h)}
    ELSE IF kind = "uses_job_runner" THEN action_job_runner(h)
    ELSE {Raises("Unknown action", h)}

\* The actions run in a dry run as they are in a live one.
run_action_Live(kind, dry, h) ==
    IF kind = "uses_job_runner" THEN action_job_runner(h)
    ELSE {Returns(EmptyMap, h)}

\* run_action: the dry run returns the stub outputs; otherwise the
\* job_runner action runs its script, and checkout, update-session and the
\* unknown actions return {}.
run_action(kind, dry, h) ==
    IF dry THEN {Returns(EmptyMap, h)}
    ELSE IF kind = "uses_job_runner" THEN action_job_runner(h)
    ELSE {Returns(EmptyMap, h)}

\* What one call of run_step can do.
run_step(kind, dry, h) ==
    IF kind \in {"uses_job_runner", "uses_other"} THEN run_action(kind, dry, h)
    ELSE run_shell_command(kind, dry, h)

\* -------------------------------------------------------------- run, run_job

\* A job passed over as soon as any job recorded so far has failed.
DepsOk_NoFailureYet(needs, outs) == \A j \in DOMAIN outs : outs[j].success

\* The needs tested for being recorded, not for having succeeded.
DepsOk_Recorded(needs, outs) == \A n \in DOMAIN needs : needs[n] \in DOMAIN outs

\* `all(job_outputs.get(dep, JobOutput()).success for dep in needs)`
DepsOk(needs, outs) ==
    \A n \in DOMAIN needs :
        IF needs[n] \in DOMAIN outs THEN outs[needs[n]].success ELSE JobOutput.success

\* The skip recorded without success=False.
DependencyFailed_Success ==
    [outputs |-> EmptyMap, success |-> TRUE, error |-> "Dependency failed"]

\* JobOutput(success=False, error="Dependency failed")
DependencyFailed == [outputs |-> EmptyMap, success |-> FALSE, error |-> "Dependency failed"]

\* The map replaced by the one entry instead of extended by it.
Record_Replace(outs, job_name, o) == [j \in {job_name} |-> o]

\* `self.context.job_outputs[job_name] = output`
Record(outs, job_name, o) ==
    [j \in DOMAIN outs \cup {job_name} |-> IF j = job_name THEN o ELSE outs[j]]

\* `output.outputs.update(step_output)`
MergeStep(o, step_output) == [o EXCEPT !.outputs = Update(o.outputs, step_output)]

\* The error recorded without success = False.
FailStep_ErrorOnly(o, e) == [o EXCEPT !.error = e]

\* The error of the first failing step kept.
FailStep_KeepFirst(o, e) ==
    IF o.success THEN [o EXCEPT !.success = FALSE, !.error = e] ELSE o

\* `output.success = False; output.error = str(e)`
FailStep(o, e) == [o EXCEPT !.success = FALSE, !.error = e]

\* The loop left on an error in either mode.
BreaksOnError_Always(dry) == TRUE

\* The loop never left on an error.
BreaksOnError_Never(dry) == FALSE

\* `if not self.context.dry_run: break`
BreaksOnError(dry) == ~dry

\* The verdict of the last job alone.
Verdict_LastJob(all, o) == o.success

\* `if not output.success: all_success = False`
Verdict(all, o) == IF ~o.success THEN FALSE ELSE all

\* The first job of the order taken at every turn of the loop.
CurrentJob_First == job_order[1]

\* `for job_name in job_order`
CurrentJob == job_order[pos]

\* The history entry of one run_step call.
Dispatch(job_name, n, r) == [job |-> job_name, step |-> n, error |-> r.error]

CurrentSteps == workflow.steps[CurrentJob]

\* The job at hand has a failed dependency: it is recorded and passed over.
JobSkip ==
    /\ pc = "jobs"
    /\ pos <= Len(job_order)
    /\ ~DepsOk(NeedsList(workflow, CurrentJob), job_outputs)
    /\ job_outputs' = Record(job_outputs, CurrentJob, DependencyFailed)
    /\ recorded' = Append(recorded, CurrentJob)
    /\ all_success' = FALSE
    /\ pos' = pos + 1
    /\ UNCHANGED <<workflow, dry_run, sessions, pc, dependencies, result, no_deps,
                   job_order, output, i, dispatched, retval, remaining,
                   inputs, host, step_outputs, template, resolved, main>>

\* run_job is entered: a fresh JobOutput, the first step at hand.
JobStart ==
    /\ pc = "jobs"
    /\ pos <= Len(job_order)
    /\ DepsOk(NeedsList(workflow, CurrentJob), job_outputs)
    /\ output' = JobOutput
    /\ step_outputs' = <<>>
    /\ i' = 1
    /\ pc' = IF CurrentSteps = <<>> THEN "job_return" ELSE "steps"
    /\ UNCHANGED <<workflow, dry_run, sessions, job_outputs, dependencies, result,
                   no_deps, job_order, pos, all_success, dispatched, recorded, retval,
                   remaining,
                   inputs, host, template, resolved, main>>

\* A step is dispatched and returns its outputs.
StepReturn ==
    /\ pc = "steps"
    /\ \E r \in run_step(CurrentSteps[i], dry_run, host) :
          /\ ~r.raised
          /\ host' = r.host
          /\ output' = MergeStep(output, r.outputs)
          /\ step_outputs' = Append(step_outputs, r.outputs)
          /\ dispatched' = Append(dispatched, Dispatch(CurrentJob, i, r))
    /\ i' = i + 1
    /\ pc' = IF i = Len(CurrentSteps) THEN "job_return" ELSE "steps"
    /\ UNCHANGED <<workflow, dry_run, sessions, job_outputs, dependencies, result,
                   no_deps, job_order, pos, all_success, recorded, retval, remaining,
                   inputs, template, resolved, main>>

\* A step is dispatched and raises.
StepRaise ==
    /\ pc = "steps"
    /\ \E r \in run_step(CurrentSteps[i], dry_run, host) :
          /\ r.raised
          /\ host' = r.host
          /\ output' = FailStep(output, r.error)
          /\ dispatched' = Append(dispatched, Dispatch(CurrentJob, i, r))
    /\ i' = i + 1
    /\ pc' = IF BreaksOnError(dry_run) \/ i = Len(CurrentSteps)
             THEN "job_return" ELSE "steps"
    /\ UNCHANGED <<workflow, dry_run, sessions, job_outputs, dependencies, result,
                   no_deps, job_order, pos, all_success, recorded, retval, remaining,
                   inputs, step_outputs, template, resolved, main>>

\* run_job returns: the JobOutput is recorded and the verdict updated.
JobEnd ==
    /\ pc = "job_return"
    /\ job_outputs' = Record(job_outputs, CurrentJob, output)
    /\ recorded' = Append(recorded, CurrentJob)
    /\ all_success' = Verdict(all_success, output)
    /\ step_outputs' = <<>>
    /\ pos' = pos + 1
    /\ pc' = "jobs"
    /\ UNCHANGED <<workflow, dry_run, sessions, dependencies, result, no_deps,
                   job_order, output, i, dispatched, retval, remaining,
                   inputs, host, template, resolved, main>>

\* The job loop has ended: the summary is printed and the verdict returned.
Summary ==
    /\ pc = "jobs"
    /\ pos > Len(job_order)
    /\ retval' = all_success
    /\ pc' = "returned"
    /\ UNCHANGED <<workflow, dry_run, sessions, job_outputs, dependencies, result,
                   no_deps, job_order, pos, all_success, output, i, dispatched, recorded,
                   remaining,
                   inputs, host, step_outputs, template, resolved, main>>

Next ==
    \/ RunBegin
    \/ SchedLoop
    \/ SchedRaise
    \/ SchedReturn
    \/ JobSkip
    \/ JobStart
    \/ StepReturn
    \/ StepRaise
    \/ JobEnd
    \/ Summary

Spec == Init /\ [][Next]_vars

\* ------------------------------------------------- get_job_order by itself

\* get_job_order over every document of the bounds; the steps play no part.
InitSched ==
    /\ \E n \in 1..MaxJobs :
          \E nd \in [Range(SubSeq(JobNamePool, 1, n)) -> SUBSET AllNames] :
              workflow = MakeWorkflow(n, nd,
                            [j \in Range(SubSeq(JobNamePool, 1, n)) |-> <<"uses_job_runner">>])
    /\ dry_run = FALSE
    /\ inputs = MainInputs
    /\ host = Untracked
    /\ template = <<>>
    /\ InitContext

NextSched ==
    \/ RunBegin
    \/ SchedLoop
    \/ SchedRaise
    \/ SchedReturn

SpecSched == InitSched /\ [][NextSched]_vars

\* ------------------------------------- run() on a context with sessions

\* The session names of the documents and contexts, in document order.
SessionPool == <<"session", "other", "spare">>

\* The identifiers a caller may have bound before run().
SessionIds == {<<"my-session-id">>, <<"local-session-", "stale">>}

\* run() up to its job loop, on a context in which the caller has bound
\* any of the session names, for a document that declares any of them.
InitBound ==
    /\ \E D \in SUBSET Range(SessionPool), nd \in [{"a"} -> SUBSET {"a"}] :
          workflow = [MakeWorkflow(1, nd, [j \in {"a"} |-> <<"uses_job_runner">>])
                         EXCEPT !.sessions = SelectIn(SessionPool, D)]
    /\ \E S \in SUBSET Range(SessionPool) : sessions \in [S -> SessionIds]
    /\ dry_run = FALSE
    /\ inputs = MainInputs
    /\ host = Untracked
    /\ template = <<>>
    /\ InitRun

SpecBound == InitBound /\ [][NextSched]_vars

\* ------------------------------------------ a run with its host tracked

\* The step lists of the documents run on a tracked host.
HostStepLists ==
    {<<"uses_other">>, <<"uses_job_runner">>} \cup
    { <<"run">> \o [n \in 1..(MaxSteps - 1) |-> k] : k \in {"run", "uses_job_runner"} }
    \cup {<<"uses_other">> \o [n \in 1..(MaxSteps - 1) |-> "run"]}

\* A run, live or dry, in a fresh working directory, of any document of
\* two jobs.
InitHost ==
    /\ \E nd \in [{"a", "b"} -> SUBSET {"a", "b"}],
          st \in [{"a", "b"} -> HostStepLists] :
              workflow = MakeWorkflow(2, nd, st)
    /\ dry_run \in BOOLEAN
    /\ inputs = MainInputs
    /\ host = FreshHost
    /\ template = <<>>
    /\ InitContext

SpecHost == InitHost /\ [][Next]_vars

\* ------------------------------------------ a run with steps that fail

\* The step lists of the documents whose steps fail in a dry run as well:
\* MaxSteps commands, each a string, a scalar that is none, or a list.
FailStepLists == [1..MaxSteps -> {"run", "run_nonstr", "run_list"}]

\* A run, live or dry, of any document of two jobs with such steps.
InitFail ==
    /\ \E nd \in [{"a", "b"} -> SUBSET {"a", "b"}],
          st \in [{"a", "b"} -> FailStepLists] :
              workflow = MakeWorkflow(2, nd, st)
    /\ dry_run \in BOOLEAN
    /\ inputs = MainInputs
    /\ host = Untracked
    /\ template = <<>>
    /\ InitContext

SpecFail == InitFail /\ [][Next]_vars

\* ------------------------------------------ substitute_variables by itself

\* The keys of the inputs mappings.
InputKeys == {<<"a">>, <<"b">>}

\* The values nested no deeper than d: a string, or a mapping of some of
\* the keys to values nested no deeper than d - 1.
RECURSIVE InputValues(_)
InputValues(d) ==
    {StrValue(<<"x">>)} \cup
    (IF d = 0 THEN {}
     ELSE { DictValue(f) :
              f \in UNION { [S -> InputValues(d - 1)] : S \in SUBSET InputKeys } })

InputMappings == { v \in InputValues(MaxDepth) : v.type = "dict" }

\* The key sequences of the paths asked for, one longer than any mapping
\* is deep.
Paths == UNION { [1..n -> InputKeys] : n \in 1..(MaxDepth + 1) }

\* The text `[${{ inputs.<path> }}]`.
InputsTemplate(path) ==
    <<"[", "${{", " ", "inputs", ".">> \o Join(path, ".") \o <<" ", "}}", "]">>

\* The literals compared with: the empty one, the value the inputs hold,
\* and one with the text of an operator inside its quotes.
Literals == {<<>>, <<"x">>, <<"a", " != ", "b">>}

\* The text `[${{ inputs.<path> <op> '<literal>' }}]`, op being " == " or
\* " != ".
ComparisonTemplate(path, op, literal) ==
    <<"[", "${{", " ", "inputs", ".">> \o Join(path, ".")
        \o <<op, "'">> \o literal \o <<"'", " ", "}}", "]">>

\* Texts in which no opening token has a closing token after it.
PlainTexts == {<<"plain">>, <<"${{", " ", "x">>, <<"x", " ", "}}">>}

\* The values substitute_variables takes, nested no deeper than d: such a
\* text, an integer, a list of one or two values, a mapping of one key.
RECURSIVE PlainValues(_)
PlainValues(d) ==
    { StrValue(t) : t \in PlainTexts } \cup {IntValue(5)} \cup
    (IF d = 0 THEN {}
     ELSE { ListValue(<<v>>) : v \in PlainValues(d - 1) }
          \cup { ListValue(<<IntValue(5), v>>) : v \in PlainValues(d - 1) }
          \cup { DictValue([k \in {<<"a">>} |-> v]) : v \in PlainValues(d - 1) })

\* The inputs of the expressions with a path or a word on each side: a
\* word, the empty text, or the text of a path, under any of the keys.
PathInputs ==
    { DictValue(f) :
        f \in UNION { [S -> {StrValue(<<"x">>), StrValue(<<>>),
                             StrValue(<<"inputs", ".", "b">>)}] :
                        S \in SUBSET InputKeys } }

\* The sides of those expressions: the words true and false and the paths
\* of one key.
Sides == {<<"true">>, <<"false">>} \cup { <<"inputs", ".">> \o k : k \in InputKeys }

\* The text `[${{ <left><op><right> }}]`, op being one of the four
\* operators.
BinaryTemplate(left, op, right) ==
    <<"[", "${{", " ">> \o left \o <<op>> \o right \o <<" ", "}}", "]">>

\* substitute_variables is called with a template over any inputs mapping:
\* a path, a comparison of a path with a literal, a value without a
\* placeholder, or an expression with a path or a word on each side.
InitEval ==
    /\ workflow = MakeWorkflow(1, [j \in {"a"} |-> {}],
                               [j \in {"a"} |-> <<"uses_job_runner">>])
    /\ dry_run = FALSE
    /\ host = Untracked
    /\ \/ /\ inputs \in InputMappings
          /\ \/ \E path \in Paths : template = StrValue(InputsTemplate(path))
             \/ \E path \in Paths, op \in {" == ", " != "}, literal \in Literals :
                    template = StrValue(ComparisonTemplate(path, op, literal))
       \/ /\ inputs = MainInputs
          /\ template \in PlainValues(MaxDepth)
       \/ /\ inputs \in PathInputs
          /\ \E left \in Sides, right \in Sides,
                op \in {" == ", " != ", " || ", " && "} :
                 template = StrValue(BinaryTemplate(left, op, right))
    /\ InitContext

\* substitute_variables on the template.
SubstituteVariables ==
    /\ resolved = <<>>
    /\ resolved' = <<substitute_variables(template, job_outputs)>>
    /\ UNCHANGED <<workflow, dry_run, sessions, job_outputs, pc, dependencies,
                   result, no_deps, job_order, pos, all_success, output, i,
                   dispatched, recorded, retval, remaining, inputs, host,
                   step_outputs, template, main>>

NextEval == SubstituteVariables

SpecEval == InitEval /\ [][NextEval]_vars

\* ------------------------------------------------------------------ main()

\* How many -i arguments a command line of the model has at most.
MaxInputs == 2

\* str(e) of the exceptions that leave main() before the run.
InvalidInputFormat == "Invalid input format"

InvalidLiteral == "invalid literal for int() with base 10"

TypeError == "TypeError"

CircularDependency == "Circular dependency detected in jobs"

\* value.lower(), token by token: the spellings of true and false.
LowerToken(token) ==
    IF token \in {"true", "True", "TRUE", "tRuE"} THEN "true"
    ELSE IF token \in {"false", "False", "FALSE"} THEN "false"
    ELSE token

Lower(text) == [n \in DOMAIN text |-> LowerToken(text[n])]

\* The tokens str.isdigit accepts: a run of decimal digits is one token,
\* and so is a superscript digit (the token "sup2" stands for the
\* character U+00B2), which isdigit accepts and int() rejects.
Superscripts == {"sup2"}

\* value.isdigit()
IsDigit(value) ==
    value # <<>> /\ \A n \in DOMAIN value : value[n] \in Numerals \cup Superscripts

\* What parse_input_arg does: it returns (key, value) or raises.
Parsed(key, value) == [error |-> NoError, key |-> key, value |-> value]

ParseRaises(e) == [error |-> e, key |-> <<>>, value |-> StrValue(<<>>)]

\* An argument without '=' is taken for a key with the empty value.
parse_input_arg_NoCheck(arg) ==
    IF "=" \notin Range(arg) THEN Parsed(arg, StrValue(<<>>))
    ELSE LET key == SubSeq(arg, 1, IndexOf(arg, "=") - 1)
             value == SubSeq(arg, IndexOf(arg, "=") + 1, Len(arg))
         IN IF Lower(value) = <<"true">> THEN Parsed(key, BoolValue(TRUE))
            ELSE IF Lower(value) = <<"false">> THEN Parsed(key, BoolValue(FALSE))
            ELSE IF IsDigit(value)
                 THEN IF Len(value) = 1 /\ value[1] \in Numerals
                      THEN Parsed(key, IntValue(NumeralValue(value[1])))
                      ELSE ParseRaises(InvalidLiteral)
            ELSE Parsed(key, StrValue(value))

\* parse_input_arg: the ValueError without '='; `arg.split('=', 1)`; then
\* the value by value.lower(), value.isdigit() and int(value).
parse_input_arg(arg) ==
    IF "=" \notin Range(arg) THEN ParseRaises(InvalidInputFormat)
    ELSE LET key == SubSeq(arg, 1, IndexOf(arg, "=") - 1)
             value == SubSeq(arg, IndexOf(arg, "=") + 1, Len(arg))
         IN IF Lower(value) = <<"true">> THEN Parsed(key, BoolValue(TRUE))
            ELSE IF Lower(value) = <<"false">> THEN Parsed(key, BoolValue(FALSE))
            ELSE IF IsDigit(value)
                 THEN IF Len(value) = 1 /\ value[1] \in Numerals
                      THEN Parsed(key, IntValue(NumeralValue(value[1])))
                      ELSE ParseRaises(InvalidLiteral)
            ELSE Parsed(key, StrValue(value))

\* The TypeError of build_nested_dict and of main()'s mock values: `in` or
\* an item assignment on a value that is no mapping.
Failed == [type |-> "TypeError"]

\* One pass of the loop of build_nested_dict from the mapping `current`:
\* the parts but the last are walked, created as {} where absent, and the
\* last part is assigned.  A value on the way that is no mapping fails.
RECURSIVE SetPath(_, _, _)
SetPath(current, parts, value) ==
    IF current.type # "dict" THEN Failed
    ELSE IF Len(parts) = 1
    THEN DictValue([k \in DOMAIN current.items \cup {parts[1]} |->
                       IF k = parts[1] THEN value ELSE current.items[k]])
    ELSE LET child == IF parts[1] \in DOMAIN current.items
                      THEN current.items[parts[1]]
                      ELSE DictValue(EmptyMap)
             below == SetPath(child, Tail(parts), value)
         IN IF below = Failed THEN Failed
            ELSE DictValue([k \in DOMAIN current.items \cup {parts[1]} |->
                               IF k = parts[1] THEN below ELSE current.items[k]])

\* The loop of build_nested_dict over the items left, from result.
RECURSIVE BuildFrom(_, _)
BuildFrom(result_, items) ==
    IF items = <<>> \/ result_ = Failed THEN result_
    ELSE BuildFrom(SetPath(result_, Split(items[1][1], "."), items[1][2]),
                   Tail(items))

\* build_nested_dict: the items are assigned in order into an empty mapping.
build_nested_dict(items) == BuildFrom(DictValue(EmptyMap), items)

\* An input definition of the document: `key: {default: value}`, or
\* `key: {type: group, items: {...}}`, the items in document order.
Leaf(key, value) ==
    [key |-> key, has_default |-> TRUE, default |-> value,
     group |-> FALSE, items |-> <<>>]

Group(key, items) ==
    [key |-> key, has_default |-> FALSE, default |-> StrValue(<<>>),
     group |-> TRUE, items |-> items]

\* `defaults[full_key] = value` on the ordered mapping kept as a sequence of
\* pairs: the value of a key already there is replaced in place.
SetDefault(defaults, full_key, value) ==
    IF \E n \in DOMAIN defaults : defaults[n][1] = full_key
    THEN [n \in DOMAIN defaults |->
             IF defaults[n][1] = full_key THEN <<full_key, value>> ELSE defaults[n]]
    ELSE Append(defaults, <<full_key, value>>)

\* extract_defaults over the definitions obj under the prefix: a default is
\* recorded under the dotted key, then the items of a group are visited.
RECURSIVE extract_defaults(_, _, _)
extract_defaults(prefix, obj, defaults) ==
    IF obj = <<>> THEN defaults
    ELSE LET config == Head(obj)
             full_key == IF prefix # <<>> THEN prefix \o <<".">> \o config.key
                         ELSE config.key
             own == IF config.has_default
                    THEN SetDefault(defaults, full_key, config.default)
                    ELSE defaults
             deep == IF config.group
                     THEN extract_defaults(full_key, config.items, own)
                     ELSE own
         IN extract_defaults(prefix, Tail(obj), deep)

\* get_default_inputs: the (key, default) pairs of on.execute.inputs.
get_default_inputs(wf) == extract_defaults(<<>>, wf.inputs, <<>>)

\* The mock values main() adds for the resource where they are not given.
AddMock(all_inputs) ==
    LET resource == IF <<"resource">> \in DOMAIN all_inputs.items
                    THEN all_inputs.items[<<"resource">>]
                    ELSE DictValue(EmptyMap)
    IN IF resource.type # "dict" THEN Failed
       ELSE LET mock == [f \in {<<"ip">>, <<"id">>, <<"schedulerType">>} |->
                            IF f = <<"ip">> THEN StrValue(<<"localhost">>)
                            ELSE IF f = <<"id">> THEN StrValue(<<"local-resource">>)
                            ELSE StrValue(<<>>)]
            IN DictValue([k \in DOMAIN all_inputs.items \cup {<<"resource">>} |->
                   IF k = <<"resource">>
                   THEN DictValue(Update_KeepFirst(resource.items, mock))
                   ELSE all_inputs.items[k]])

\* The exit code is 0 whatever run() returned.
ExitCode_Zero(success) == 0

\* `return 0 if success else 1`
ExitCode(success) == IF success THEN 0 ELSE 1

\* An exception leaves main(): the process ends with exit status 1.
Crash(e) == [main EXCEPT !.error = e, !.exit_code = 1]

\* `if not args.workflow.exists(): ... return 1`
MainNotFound ==
    /\ pc = "main"
    /\ ~main.args.workflow_exists
    /\ main' = [main EXCEPT !.exit_code = 1]
    /\ pc' = "exit"
    /\ UNCHANGED <<workflow, dry_run, sessions, job_outputs, dependencies,
                   result, no_deps, job_order, pos, all_success, output, i,
                   dispatched, recorded, retval, remaining, inputs, host,
                   step_outputs, template, resolved>>

\* The document is loaded and the -i arguments are parsed in order: the
\* first that raises ends main().
MainParseInputs ==
    /\ pc = "main"
    /\ main.args.workflow_exists
    /\ LET parsed == [n \in DOMAIN main.args.inputs |->
                         parse_input_arg(main.args.inputs[n])]
           bad == { n \in DOMAIN parsed : parsed[n].error # NoError }
       IN IF bad # {}
          THEN /\ main' = Crash(parsed[CHOOSE n \in bad : \A m \in bad : n <= m].error)
               /\ pc' = "exit"
          ELSE /\ main' = [main EXCEPT !.cli_inputs =
                              [n \in DOMAIN parsed |-> <<parsed[n].key, parsed[n].value>>]]
               /\ pc' = "main_merge"
    /\ UNCHANGED <<workflow, dry_run, sessions, job_outputs, dependencies,
                   result, no_deps, job_order, pos, all_success, output, i,
                   dispatched, recorded, retval, remaining, inputs, host,
                   step_outputs, template, resolved>>

\* The defaults followed by cli_inputs are merged, and the mock values of
\* the resource are added.
MainMergeInputs ==
    /\ pc = "main_merge"
    /\ LET all_inputs == build_nested_dict(get_default_inputs(workflow)
                                              \o main.cli_inputs)
           mocked == IF all_inputs = Failed THEN Failed ELSE AddMock(all_inputs)
       IN IF mocked = Failed
          THEN /\ main' = Crash(TypeError)
               /\ pc' = "exit"
               /\ UNCHANGED inputs
          ELSE /\ inputs' = mocked
               /\ pc' = "main_work_dir"
               /\ UNCHANGED main
    /\ UNCHANGED <<workflow, dry_run, sessions, job_outputs, dependencies,
                   result, no_deps, job_order, pos, all_success, output, i,
                   dispatched, recorded, retval, remaining, host,
                   step_outputs, template, resolved>>

\* The working directory is created, the context and the runner are
\* constructed, and run() is called.
MainWorkDir ==
    /\ pc = "main_work_dir"
    /\ main' = [main EXCEPT !.work_dir = "created"]
    /\ host' = FreshHost
    /\ sessions' = EmptyMap
    /\ pc' = "start"
    /\ UNCHANGED <<workflow, dry_run, job_outputs, dependencies,
                   result, no_deps, job_order, pos, all_success, output, i,
                   dispatched, recorded, retval, remaining, inputs,
                   step_outputs, template, resolved>>

\* run() has returned: the working directory is removed and main() returns
\* the exit code.
MainReturn ==
    /\ pc = "returned"
    /\ main' = [main EXCEPT !.exit_code = ExitCode(retval), !.work_dir = "removed"]
    /\ pc' = "exit"
    /\ UNCHANGED <<workflow, dry_run, sessions, job_outputs, dependencies,
                   result, no_deps, job_order, pos, all_success, output, i,
                   dispatched, recorded, retval, remaining, inputs, host,
                   step_outputs, template, resolved>>

\* The ValueError of get_job_order leaves run() and main(): the working
\* directory is removed on the way out.
MainRaised ==
    /\ pc = "raised"
    /\ main' = [Crash(CircularDependency) EXCEPT !.work_dir = "removed"]
    /\ pc' = "exit"
    /\ UNCHANGED <<workflow, dry_run, sessions, job_outputs, dependencies,
                   result, no_deps, job_order, pos, all_success, output, i,
                   dispatched, recorded, retval, remaining, inputs, host,
                   step_outputs, template, resolved>>

\* The keys of the definitions and of the overrides.
OverrideKeys == {<<"a">>, <<"b">>, <<"a", ".", "b">>}

\* The values of the overrides: a word, a spelling of true, decimal digits
\* with and without leading zeros, a superscript digit, a signed number,
\* a value with '=' in it.
OverrideValues ==
    {<<"x">>, <<"TRUE">>, <<"42">>, <<"007">>, <<"sup2">>, <<"-5">>,
     <<"b", "=", "c">>}

\* The -i arguments: key=value, and one without '='.
InputArgs ==
    { key \o <<"=">> \o value : key \in OverrideKeys, value \in OverrideValues }
    \cup {<<"a">>}

\* The on.execute.inputs sections of the documents.
InputDefs ==
    {<<>>,
     <<Leaf(<<"a">>, StrValue(<<"hello">>))>>,
     <<Leaf(<<"a">>, StrValue(<<"hello">>)), Leaf(<<"b">>, IntValue(5))>>,
     <<Group(<<"a">>, <<Leaf(<<"b">>, StrValue(<<"hello">>))>>)>>,
     <<Group(<<"a">>, <<Leaf(<<"b">>, StrValue(<<"hello">>))>>),
       Leaf(<<"b">>, IntValue(5))>>}

\* main() is entered with up to MaxInputs -i arguments for a document that
\* exists and declares any of the input sections.
InitInputs ==
    /\ \E defs \in InputDefs :
          workflow = [MakeWorkflow(1, [j \in {"a"} |-> {}],
                                   [j \in {"a"} |-> <<"uses_job_runner">>])
                         EXCEPT !.inputs = defs]
    /\ \E n \in 0..MaxInputs : \E args_inputs \in [1..n -> InputArgs] :
          main = MainFrame(TRUE, args_inputs)
    /\ dry_run = FALSE
    /\ sessions = EmptyMap
    /\ inputs = DictValue(EmptyMap)
    /\ host = Untracked
    /\ template = <<>>
    /\ pc = "main"
    /\ InitLocals

NextInputs == MainParseInputs \/ MainMergeInputs

\* main() up to the inputs of the context.
SpecInputs == InitInputs /\ [][NextInputs]_vars

\* The step lists of the documents main() is run on.
CliStepLists == {<<"run">>, <<"uses_job_runner">>}

\* The command lines main() is run with: without -i, with an override, with
\* an argument without '=', alone or after an override.
CliInputs ==
    {<<>>,
     << <<"a", "=", "x">> >>,
     << <<"a">> >>,
     << <<"a", "=", "x">>, <<"a">> >>}

\* main() is entered, live or dry, for a path that exists or not, with a
\* document of two jobs.
InitCli ==
    /\ \E nd \in [{"a", "b"} -> SUBSET {"a", "b"}],
          st \in [{"a", "b"} -> CliStepLists] :
              workflow = [MakeWorkflow(2, nd, st)
                             EXCEPT !.inputs = <<Leaf(<<"a">>, StrValue(<<"hello">>))>>]
    /\ \E workflow_exists \in BOOLEAN, args_inputs \in CliInputs :
          main = MainFrame(workflow_exists, args_inputs)
    /\ dry_run \in BOOLEAN
    /\ sessions = EmptyMap
    /\ inputs = DictValue(EmptyMap)
    /\ host = FreshHost
    /\ template = <<>>
    /\ pc = "main"
    /\ InitLocals

NextCli ==
    \/ MainNotFound
    \/ MainParseInputs
    \/ MainMergeInputs
    \/ MainWorkDir
    \/ MainReturn
    \/ MainRaised
    \/ Next

\* main() from its arguments to the exit code.
SpecCli == InitCli /\ [][NextCli]_vars

\* ------------------------------------------------------ the needs relation

Jobs == Range(workflow.order)

Needs(j) == Range(NeedsList(workflow, j))

\* The jobs reachable from the set S along needs entries that name a job.
RECURSIVE NeedsClosure(_)
NeedsClosure(S) ==
    LET T == S \cup UNION { Needs(j) \cap Jobs : j \in S }
    IN IF T = S THEN S ELSE NeedsClosure(T)

\* The direct and transitive needs of j.
TransitiveNeeds(j) == NeedsClosure(Needs(j) \cap Jobs)

OnCycle(j) == j \in TransitiveNeeds(j)

HasCycle == \E j \in Jobs : OnCycle(j)

\* Some needs entry names a job the document does not have.
HasMissingNeed == \E j \in Jobs : ~(Needs(j) \subseteq Jobs)

\* get_job_order has returned (run() is in or past its job loop).
OrderReturned == pc \notin {"start", "sched", "raised"}

\* ------------------------------------------------------------------ claims

DocIndex(j) == IndexOf(workflow.order, j)

\* The jobs whose needs all stand among the first k of the returned order
\* and that do not stand there themselves: ready once k jobs are placed.
ReadyAfter(k) ==
    { j \in Jobs : /\ Needs(j) \subseteq Range(SubSeq(job_order, 1, k))
                   /\ j \notin Range(SubSeq(job_order, 1, k)) }

\* The number of jobs placed when j became ready: the position of the last
\* of its needs, 0 for a job without needs.
ReadySince(j) ==
    IF Needs(j) = {} THEN 0
    ELSE CHOOSE k \in 1..Len(job_order) :
            /\ job_order[k] \in Needs(j)
            /\ \A d \in Needs(j) : IndexOf(job_order, d) <= k

\* C8 as claimed: for a graph with a cycle (all needs naming jobs), the
\* names of the scheduler's failure are exactly the jobs on a cycle.
C8_ExactlyCycleMembers ==
    (pc = "raised" /\ HasCycle /\ ~HasMissingNeed) =>
        remaining = { j \in Jobs : OnCycle(j) }

\* C9 as claimed: of two jobs that are ready at the same time (after some
\* number of placements), the one earlier in the document is placed earlier.
C9_ReadyTogetherInDocOrder ==
    OrderReturned =>
        \A k \in 0..Len(job_order) : \A j1, j2 \in ReadyAfter(k) :
            DocIndex(j1) < DocIndex(j2) =>
                IndexOf(job_order, j1) < IndexOf(job_order, j2)

\* C9, amended: the returned order is the document's jobs sorted by the
\* moment they became ready, and by document position among the jobs that
\* became ready at the same moment; so a document has one order.
C9_ReadyFirstThenDocOrder ==
    OrderReturned =>
        \A j1, j2 \in Jobs :
            \/ ReadySince(j1) < ReadySince(j2)
            \/ ReadySince(j1) = ReadySince(j2) /\ DocIndex(j1) < DocIndex(j2)
            => IndexOf(job_order, j1) < IndexOf(job_order, j2)

\* b is released by a while c has been ready from the start: c goes first.
C9_Witness ==
    /\ pc = "jobs"
    /\ job_order = <<"a", "c", "b">>
    /\ Needs("b") = {"a"}
    /\ Needs("c") = {}

\* The history entries of the steps of job j.
StepsDispatched(j) == { k \in DOMAIN dispatched : dispatched[k].job = j }

\* C2: a step is dispatched only for the job next in the scheduler's order,
\* with all earlier jobs recorded, and only when every job named in its
\* needs has, at that moment, a recorded JobOutput with success = true.
C2_NeedsSucceededAtDispatch ==
    [][dispatched' # dispatched =>
         LET j == dispatched'[Len(dispatched')].job
         IN /\ j = job_order[pos]
            /\ DOMAIN job_outputs = Range(SubSeq(job_order, 1, pos - 1))
            /\ \A d \in Needs(j) :
                  d \in DOMAIN job_outputs /\ job_outputs[d].success]_vars

\* A step of a job with two needs has been dispatched.
C2_Witness ==
    \E k \in DOMAIN dispatched : Cardinality(Needs(dispatched[k].job)) = 2

\* Some job named in j's needs is recorded with success = false.
FailedNeed(j) ==
    \E d \in Needs(j) : d \in DOMAIN job_outputs /\ ~job_outputs[d].success

Skipped == [outputs |-> EmptyMap, success |-> FALSE, error |-> "Dependency failed"]

\* C3: a job with a need recorded as unsuccessful has none of its steps
\* dispatched and is recorded as unsuccessful with the error "Dependency
\* failed" and no outputs; at the end of the run this holds of every direct
\* or transitive dependent of an unsuccessful job.
C3_SkipCascade ==
    \A j \in Jobs :
        /\ FailedNeed(j) =>
              /\ StepsDispatched(j) = {}
              /\ j \in DOMAIN job_outputs => job_outputs[j] = Skipped
              /\ pc = "returned" => j \in DOMAIN job_outputs
        /\ pc = "returned" =>
              \A f \in TransitiveNeeds(j) :
                  ~job_outputs[f].success =>
                      job_outputs[j] = Skipped /\ StepsDispatched(j) = {}

\* A chain of three: a fails by a step error, b and c are skipped.
C3_Witness ==
    /\ pc = "returned"
    /\ ~dry_run
    /\ Len(workflow.order) = 3
    /\ Needs("c") = {"b"}
    /\ Needs("b") = {"a"}
    /\ job_outputs["a"].error = CommandFailed
    /\ job_outputs["b"] = Skipped
    /\ job_outputs["c"] = Skipped

\* C4: run() returns true exactly when every job of the workflow is
\* recorded with success = true, in a live run and in a dry run.
C4_VerdictIffAllSucceeded ==
    pc = "returned" =>
        (retval <=> \A j \in Jobs : j \in DOMAIN job_outputs /\ job_outputs[j].success)

\* A dry run of three jobs of which one alone, not the last, did not succeed.
C4_Witness ==
    /\ pc = "returned"
    /\ dry_run
    /\ ~retval
    /\ Len(job_order) = 3
    /\ job_outputs[job_order[3]].success
    /\ Cardinality({ j \in Jobs : ~job_outputs[j].success }) = 1

\* The template `${{ needs.X.outputs.Y }}`.
NeedsTemplate(X, Y) ==
    <<"${{", " ", "needs", ".", X, ".", "outputs", ".">> \o Y \o <<" ", "}}">>

\* The output names a template may ask for.
AskedKeys == {HOSTNAME, job_started}

\* What the claim says `${{ needs.X.outputs.Y }}` is, given the job outputs.
RecordedValue(outs, X, Y) ==
    IF X \in DOMAIN outs /\ Y \in DOMAIN outs[X].outputs
    THEN outs[X].outputs[Y] ELSE <<>>

\* C5: at every point of a run `${{ needs.X.outputs.Y }}` resolves to the
\* empty string while X has no recorded output named Y (X not yet recorded,
\* X running, or X recorded without Y) and to exactly the recorded value
\* once X's JobOutput is recorded, whether X succeeded or failed.
C5_NeedsOutputResolution ==
    \A X \in AllNames : \A Y \in AskedKeys :
        substitute_string(NeedsTemplate(X, Y), job_outputs)
            = RecordedValue(job_outputs, X, Y)

\* A later job is running while a failed job's partial outputs resolve: the
\* host name of its first step and the dotted key of another job.
C5_Witness ==
    /\ pc = "steps"
    /\ \E X \in DOMAIN job_outputs :
          /\ job_outputs[X].error = CommandFailed
          /\ substitute_string(NeedsTemplate(X, HOSTNAME), job_outputs) = <<"node2">>
    /\ \E X \in DOMAIN job_outputs :
          substitute_string(NeedsTemplate(X, job_started), job_outputs) = <<"1">>
    /\ substitute_string(NeedsTemplate(CurrentJob, HOSTNAME), job_outputs) = <<>>
    /\ HOSTNAME \in DOMAIN output.outputs

NoDuplicates(seq) == \A m, n \in DOMAIN seq : seq[m] = seq[n] => m = n

\* C6: job_outputs is assigned once per job name, every job's by the end
\* of the run, and an entry once assigned never changes.
C6_RecordedOnce ==
    /\ [](/\ NoDuplicates(recorded)
          /\ Range(recorded) = DOMAIN job_outputs
          /\ pc = "returned" => Range(recorded) = Jobs)
    /\ [][\A j \in DOMAIN job_outputs :
            j \in DOMAIN job_outputs' /\ job_outputs'[j] = job_outputs[j]]_vars

\* A run of three jobs has ended: one succeeded, one failed, one was skipped.
C6_Witness ==
    /\ pc = "returned"
    /\ Len(recorded) = 3
    /\ \E j \in Jobs : job_outputs[j].success
    /\ \E j \in Jobs : job_outputs[j].error = ScriptFailed
    /\ \E j \in Jobs : job_outputs[j] = Skipped

\* C7: with a cycle in the job graph run() leaves by the ValueError of
\* get_job_order with no step dispatched and no JobOutput recorded.
C7_CycleAbortsBeforeAnyJob ==
    /\ HasCycle => ~OrderReturned /\ ~(pc = "sched" /\ no_deps = <<>> /\ ~OrderIsShort(workflow, result))
    /\ (HasCycle \/ pc = "raised") =>
          dispatched = <<>> /\ DOMAIN job_outputs = {} /\ recorded = <<>>

\* The run was aborted although job a, off the cycle, had been placed.
C7_Witness ==
    /\ pc = "raised"
    /\ HasCycle
    /\ ~HasMissingNeed
    /\ result = <<"a">>
    /\ remaining = {"b", "c"}

\* C10: in a live run a step that raised is the last step dispatched of
\* its job, and the job is recorded as failed with that step's error.
C10_FailFast ==
    ~dry_run =>
        \A k \in DOMAIN dispatched :
            dispatched[k].error # NoError =>
                LET j == dispatched[k].job
                IN /\ \A m \in DOMAIN dispatched : m > k => dispatched[m].job # j
                   /\ pc \in {"steps", "job_return"} /\ CurrentJob = j =>
                         /\ pc = "job_return"
                         /\ ~output.success
                         /\ output.error = dispatched[k].error
                   /\ ~(pc \in {"steps", "job_return"} /\ CurrentJob = j) =>
                         /\ j \in DOMAIN job_outputs
                         /\ ~job_outputs[j].success
                         /\ job_outputs[j].error = dispatched[k].error

\* A live run has ended in which the first of a job's two steps timed out.
C10_Witness ==
    /\ ~dry_run
    /\ pc = "returned"
    /\ \E k \in DOMAIN dispatched :
          /\ dispatched[k].error = TimedOut
          /\ dispatched[k].step = 1
          /\ Len(workflow.steps[dispatched[k].job]) = 2
          /\ job_outputs[dispatched[k].job].error = TimedOut

\* C11: in a dry run, once a step of a job has raised, every later step of
\* the job is dispatched as well, one after the other in document order.
C11_DryRunContinues ==
    dry_run =>
        \A k \in DOMAIN dispatched :
            dispatched[k].error # NoError =>
                LET j == dispatched[k].job
                    n == dispatched[k].step
                IN \A m \in (n + 1)..Len(workflow.steps[j]) :
                      IF k + (m - n) <= Len(dispatched)
                      THEN /\ dispatched[k + (m - n)].job = j
                           /\ dispatched[k + (m - n)].step = m
                      ELSE /\ pc = "steps"
                           /\ CurrentJob = j
                           /\ i = n + (Len(dispatched) - k) + 1

\* A dry run has ended in which the first step of a job raised and the
\* second step of that job was dispatched right after it and returned.
C11_Witness ==
    /\ dry_run
    /\ pc = "returned"
    /\ \E k \in DOMAIN dispatched :
          /\ dispatched[k].error = NotAString
          /\ dispatched[k].step = 1
          /\ k + 1 <= Len(dispatched)
          /\ dispatched[k + 1].job = dispatched[k].job
          /\ dispatched[k + 1].step = 2
          /\ dispatched[k + 1].error = NoError

\* C12: when a dry run of a document with an acyclic job graph has ended,
\* every step of every job of the document has been dispatched.
C12_DryRunDispatchesEveryStep ==
    (dry_run /\ pc = "returned" /\ ~HasCycle /\ ~HasMissingNeed) =>
        \A j \in Jobs : \A n \in DOMAIN workflow.steps[j] :
            \E k \in DOMAIN dispatched :
                dispatched[k].job = j /\ dispatched[k].step = n

\* C14: for a document with an acyclic job graph run() does not leave by
\* an exception, whatever its steps do.
C14_AcyclicRunDoesNotRaise == ~HasCycle => pc # "raised"

\* The map that a sequence of maps merges to: a key has the value of the
\* last map of the sequence that holds it.
MergedInOrder(seq) ==
    [k \in UNION { DOMAIN seq[n] : n \in DOMAIN seq } |->
        seq[CHOOSE n \in DOMAIN seq :
                /\ k \in DOMAIN seq[n]
                /\ \A m \in DOMAIN seq : m > n => k \notin DOMAIN seq[m]][k]]

\* C13: the steps of a job are dispatched one after the other from the
\* first on, in document order and without another job's step in between,
\* and the job's output map is the maps its steps returned, merged in that
\* order: a later step's value replaces an earlier one's for the same key
\* and every other key stays as it was.
C13_StepsInOrderOutputsMerged ==
    /\ \A k \in DOMAIN dispatched :
          IF dispatched[k].step = 1
          THEN \A m \in 1..(k - 1) : dispatched[m].job # dispatched[k].job
          ELSE /\ k > 1
               /\ dispatched[k - 1].job = dispatched[k].job
               /\ dispatched[k - 1].step = dispatched[k].step - 1
    /\ pc \in {"steps", "job_return"} =>
          /\ output.outputs = MergedInOrder(step_outputs)
          /\ Len(step_outputs) =
                Cardinality({ k \in DOMAIN dispatched :
                                /\ dispatched[k].job = CurrentJob
                                /\ dispatched[k].error = NoError })

\* Both steps of a job have returned a host name: the job's map holds the
\* second one.
C13_Witness ==
    /\ pc = "job_return"
    /\ Len(step_outputs) = 2
    /\ HOSTNAME \in DOMAIN step_outputs[1]
    /\ HOSTNAME \in DOMAIN step_outputs[2]
    /\ step_outputs[1][HOSTNAME] # step_outputs[2][HOSTNAME]
    /\ output.outputs[HOSTNAME] = step_outputs[2][HOSTNAME]

\* C19: session initialization binds every declared session name: a name
\* bound before keeps its identifier, a name not bound gets the identifier
\* local-session-<name>, the bindings of undeclared names stay as they
\* were; nothing later in run() touches the bindings.
C19_SessionInitialization ==
    [][IF pc = "start"
       THEN /\ DOMAIN sessions' = DOMAIN sessions \cup Range(workflow.sessions)
            /\ \A s \in DOMAIN sessions : sessions'[s] = sessions[s]
            /\ \A s \in Range(workflow.sessions) \ DOMAIN sessions :
                  sessions'[s] = <<"local-session-", s>>
       ELSE sessions' = sessions]_vars

\* Sessions are initialized: a declared name kept the caller's identifier,
\* a declared name was bound anew, an undeclared name is still bound.
C19_Witness ==
    /\ pc = "sched"
    /\ workflow.sessions = <<"session", "other">>
    /\ DOMAIN sessions = {"session", "other", "spare"}
    /\ sessions["session"] = <<"my-session-id">>
    /\ sessions["other"] = <<"local-session-", "other">>
    /\ sessions["spare"] = <<"local-session-", "stale">>

\* Every key of the path is there: each value on the way is a mapping that
\* holds the next key.
RECURSIVE PathPresent(_, _)
PathPresent(value, keys) ==
    \/ keys = <<>>
    \/ /\ value.type = "dict"
       /\ Head(keys) \in DOMAIN value.items
       /\ PathPresent(value.items[Head(keys)], Tail(keys))

\* C20: `${{ inputs.<path> }}` resolves to the empty string whenever some
\* key along the path is absent from the inputs or a value on the way is
\* no mapping, for a path of any depth.
C20_MissingInputIsEmpty ==
    resolved # <<>> =>
        \A path \in Paths :
            (template = StrValue(InputsTemplate(path)) /\ ~PathPresent(inputs, path))
                => resolved[1] = StrValue(<<"[", "]">>)

\* A path of three keys was resolved to the empty string over inputs whose
\* value at the second key is a string.
C20_Witness ==
    /\ resolved = <<StrValue(<<"[", "]">>)>>
    /\ template = StrValue(InputsTemplate(<< <<"a">>, <<"b">>, <<"a">> >>))
    /\ PathPresent(inputs, << <<"a">>, <<"b">> >>)
    /\ inputs.items[<<"a">>].items[<<"b">>].type = "str"

\* A text without the whitespace around it: from its first token that is
\* no whitespace to its last.
Trimmed(text) ==
    IF \A n \in DOMAIN text : text[n] \in Whitespace THEN <<>>
    ELSE SubSeq(text,
                CHOOSE n \in DOMAIN text :
                    text[n] \notin Whitespace /\ \A m \in 1..(n - 1) : text[m] \in Whitespace,
                CHOOSE n \in DOMAIN text :
                    text[n] \notin Whitespace
                    /\ \A m \in (n + 1)..Len(text) : text[m] \in Whitespace)

\* In a live run on a tracked host the step dispatched last is a step of the
\* job at hand, of one of the kinds, and it has returned: the host is as
\* the step left it and the last of step_outputs is the map it returned.
JustReturned(kinds) ==
    /\ ~dry_run
    /\ host.tracked
    /\ pc \in {"steps", "job_return"}
    /\ dispatched # <<>>
    /\ dispatched[Len(dispatched)].job = CurrentJob
    /\ dispatched[Len(dispatched)].error = NoError
    /\ workflow.steps[CurrentJob][dispatched[Len(dispatched)].step] \in kinds

LastStepOutput == step_outputs[Len(step_outputs)]

\* C15: in a dry run no subprocess is started, the runner writes no file
\* and the working directory stays as it was; every step returns the empty
\* map, and every JobOutput recorded has the empty map for its outputs.
C15_DryRunTouchesNothing ==
    dry_run =>
        /\ host.started = 0
        /\ host.written = {}
        /\ host.files = FreshHost.files
        /\ \A n \in DOMAIN step_outputs : step_outputs[n] = EmptyMap
        /\ output.outputs = EmptyMap
        /\ \A j \in DOMAIN job_outputs : job_outputs[j].outputs = EmptyMap

\* A dry run on a tracked host has ended after a command step, a
\* job_runner step and a step of another action were dispatched.
C15_Witness ==
    /\ dry_run
    /\ host.tracked
    /\ pc = "returned"
    /\ workflow.steps["a"] = <<"run", "uses_job_runner">>
    /\ workflow.steps["b"] = <<"uses_other">>
    /\ Len(dispatched) = 3
    /\ DOMAIN job_outputs = {"a", "b"}

\* The last step of job j reads coordination files back.
EndsReading(j) ==
    /\ workflow.steps[j] # <<>>
    /\ workflow.steps[j][Len(workflow.steps[j])] \in {"run", "uses_job_runner"}

\* C16: with HOSTNAME and SESSION_PORT in the working directory when a
\* command step or a job_runner step has exited 0, the map the step returns,
\* the output map of its job and the map recorded for the job hold both
\* keys, each with the file's content without the whitespace around it.
C16_CoordinationFilesReadBack ==
    /\ (JustReturned({"run", "uses_job_runner"})
          /\ {HOSTNAME, SESSION_PORT} \subseteq DOMAIN host.files) =>
            \A f \in {HOSTNAME, SESSION_PORT} :
                /\ f \in DOMAIN LastStepOutput
                /\ LastStepOutput[f] = Trimmed(host.files[f])
                /\ f \in DOMAIN output.outputs
                /\ output.outputs[f] = Trimmed(host.files[f])
    /\ (/\ ~dry_run
        /\ host.tracked
        /\ pc \in {"jobs", "returned"}
        /\ recorded # <<>>
        /\ job_outputs[recorded[Len(recorded)]].success
        /\ EndsReading(recorded[Len(recorded)])
        /\ {HOSTNAME, SESSION_PORT} \subseteq DOMAIN host.files) =>
            \A f \in {HOSTNAME, SESSION_PORT} :
                /\ f \in DOMAIN job_outputs[recorded[Len(recorded)]].outputs
                /\ job_outputs[recorded[Len(recorded)]].outputs[f] = Trimmed(host.files[f])

\* A live run has ended: the script of job a's job_runner step wrote both
\* files, and a command step of job b then wrote the host name anew with
\* whitespace around it.
C16_Witness ==
    /\ ~dry_run
    /\ host.tracked
    /\ pc = "returned"
    /\ recorded = <<"a", "b">>
    /\ workflow.steps["a"] = <<"uses_job_runner">>
    /\ job_outputs["a"].success
    /\ HOSTNAME \in DOMAIN job_outputs["a"].outputs
    /\ job_outputs["a"].outputs[HOSTNAME] = <<"node2">>
    /\ job_outputs["a"].outputs[SESSION_PORT] = <<"8080">>
    /\ workflow.steps["b"][1] = "run"
    /\ job_outputs["b"].success
    /\ host.files[HOSTNAME] = <<" ", "node1", "\n">>
    /\ job_outputs["b"].outputs[HOSTNAME] = <<"node1">>
    /\ job_outputs["b"].outputs[SESSION_PORT] = <<"8080">>

\* The four well-known coordination files.
CoordinationFiles == {HOSTNAME, SESSION_PORT, job_started, slug}

\* C17: when a command step has exited 0, the map it returns holds, for
\* each of HOSTNAME, SESSION_PORT, job.started and slug that exists in the
\* working directory, a key of that name with the file's trimmed content.
C17_FourCoordinationFiles ==
    JustReturned({"run"}) =>
        \A f \in CoordinationFiles \cap DOMAIN host.files :
            /\ f \in DOMAIN LastStepOutput
            /\ LastStepOutput[f] = Trimmed(host.files[f])

\* The lines of the outputs-sink that hold a "=".
SinkEntries(files) ==
    IF step_outputs_txt \in DOMAIN files
    THEN SelectSeq(Split(files[step_outputs_txt], "\n"), LAMBDA line : "=" \in Range(line))
    ELSE <<>>

\* Where the first "=" of a line stands.
FirstEquals(line) ==
    CHOOSE n \in DOMAIN line : line[n] = "=" /\ \A m \in 1..(n - 1) : line[m] # "="

KeyOf(line) == Trimmed(SubSeq(line, 1, FirstEquals(line) - 1))

ValueOf(line) == Trimmed(SubSeq(line, FirstEquals(line) + 1, Len(line)))

SinkKeys(files) == { KeyOf(SinkEntries(files)[n]) : n \in DOMAIN SinkEntries(files) }

\* The value of the last line of the sink with the key k.
SinkValue(files, k) ==
    ValueOf(SinkEntries(files)[
        CHOOSE n \in DOMAIN SinkEntries(files) :
            /\ KeyOf(SinkEntries(files)[n]) = k
            /\ \A m \in DOMAIN SinkEntries(files) :
                  m > n => KeyOf(SinkEntries(files)[m]) # k])

\* The coordination files a command step finds in the working directory.
FoundFiles == CommandFiles \cap DOMAIN host.files

\* C18: in the map a command step returns after exit 0, every key of the
\* outputs-sink that is not the name of an existing coordination file has
\* its sink value, the keys set from coordination files are exactly the
\* names of the existing ones, and there is no other key.
C18_SinkKeysKept ==
    JustReturned({"run"}) =>
        /\ \A k \in SinkKeys(host.files) \ FoundFiles :
              /\ k \in DOMAIN LastStepOutput
              /\ LastStepOutput[k] = SinkValue(host.files, k)
        /\ \A f \in FoundFiles :
              /\ f \in DOMAIN LastStepOutput
              /\ LastStepOutput[f] = Trimmed(host.files[f])
        /\ DOMAIN LastStepOutput = SinkKeys(host.files) \cup FoundFiles

\* A command step has returned with the sink holding a plain key and the
\* key HOSTNAME while the file HOSTNAME exists: the plain key has its sink
\* value and HOSTNAME the file's.
C18_Witness ==
    /\ JustReturned({"run"})
    /\ SinkKeys(host.files) = {<<"k">>, HOSTNAME}
    /\ FoundFiles = {HOSTNAME}
    /\ LastStepOutput[<<"k">>] = <<"v">>
    /\ SinkValue(host.files, HOSTNAME) = <<"sinkhost">>
    /\ LastStepOutput[HOSTNAME] = <<"node1">>

\* C28: in a live run a job is skipped only if a job among its direct and
\* transitive needs failed by a step of its own, and a job whose needs have
\* all succeeded (or that has none) has its steps dispatched, whatever
\* other jobs failed before it.
C28_FailureConfined ==
    ~dry_run =>
        \A j \in DOMAIN job_outputs :
            /\ job_outputs[j] = Skipped =>
                  \E d \in TransitiveNeeds(j) :
                      /\ d \in DOMAIN job_outputs
                      /\ ~job_outputs[d].success
                      /\ job_outputs[d] # Skipped
            /\ (\A d \in Needs(j) : d \in DOMAIN job_outputs /\ job_outputs[d].success) =>
                  /\ job_outputs[j] # Skipped
                  /\ workflow.steps[j] # <<>> => StepsDispatched(j) # {}

\* A live run of three jobs has ended: a failed by a step, b without needs
\* ran after it and succeeded, c that needs a was skipped.
C28_Witness ==
    /\ ~dry_run
    /\ pc = "returned"
    /\ job_order = <<"a", "b", "c">>
    /\ Needs("b") = {}
    /\ Needs("c") = {"a"}
    /\ job_outputs["a"].error = CommandFailed
    /\ job_outputs["b"].success
    /\ StepsDispatched("b") # {}
    /\ job_outputs["c"] = Skipped

\* C29: get_job_order raises its circular-dependency error exactly when
\* the needs relation between the jobs of the document has a cycle; a needs
\* entry that names no job does not make it raise.
C29_RaisesIffCycle ==
    /\ pc = "raised" => HasCycle
    /\ HasCycle => ~OrderReturned

\* C30: the order get_job_order returns holds every job of the document
\* exactly once and no other name.
C30_OrderIsPermutation ==
    OrderReturned =>
        /\ Range(job_order) = Jobs
        /\ Len(job_order) = Cardinality(Jobs)
        /\ NoDuplicates(job_order)

\* An order of three jobs is returned that is not the document's order.
C30_Witness ==
    /\ pc = "jobs"
    /\ Len(job_order) = 3
    /\ job_order # workflow.order
    /\ ~HasCycle

\* The kind of the step of a history entry.
KindOf(d) == workflow.steps[d.job][d.step]

\* C27: in a live run a step with an action that is not recognized does
\* not raise: it returns the empty map, and the step after it, if the job
\* has one, is dispatched next.
C27_UnknownActionIsStub ==
    ~dry_run =>
        /\ \A k \in DOMAIN dispatched :
              KindOf(dispatched[k]) = "uses_other" =>
                  /\ dispatched[k].error = NoError
                  /\ dispatched[k].step < Len(workflow.steps[dispatched[k].job]) =>
                        IF k < Len(dispatched)
                        THEN /\ dispatched[k + 1].job = dispatched[k].job
                             /\ dispatched[k + 1].step = dispatched[k].step + 1
                        ELSE /\ pc = "steps"
                             /\ CurrentJob = dispatched[k].job
                             /\ i = dispatched[k].step + 1
        /\ JustReturned({"uses_other"}) => LastStepOutput = EmptyMap

\* A live run has ended in which a job of an unrecognized action and a
\* command after it succeeded, both steps dispatched.
C27_Witness ==
    /\ ~dry_run
    /\ pc = "returned"
    /\ workflow.steps["a"] = <<"uses_other", "run">>
    /\ Cardinality(StepsDispatched("a")) = 2
    /\ job_outputs["a"].success


\* The value the inputs hold at a path; the empty string when the path is
\* missing.
RECURSIVE ValueAt(_, _)
ValueAt(value, keys) ==
    IF keys = <<>> THEN value
    ELSE IF value.type = "dict" /\ Head(keys) \in DOMAIN value.items
         THEN ValueAt(value.items[Head(keys)], Tail(keys))
         ELSE StrValue(<<>>)

\* The text True or False between the brackets of the template.
Answer(b) == StrValue(<<"[", IF b THEN "True" ELSE "False", "]">>)

\* C21: `${{ inputs.P == 'L' }}` resolves to True exactly when the value at
\* P is the string L and to False otherwise, `${{ inputs.P != 'L' }}` to the
\* opposite text, a missing P comparing as the empty string.
C21_ComparisonWithLiteral ==
    resolved # <<>> =>
        \A path \in Paths, literal \in Literals :
            /\ template = StrValue(ComparisonTemplate(path, " == ", literal))
                  => resolved[1] = Answer(ValueAt(inputs, path) = StrValue(literal))
            /\ template = StrValue(ComparisonTemplate(path, " != ", literal))
                  => resolved[1] = Answer(ValueAt(inputs, path) # StrValue(literal))

\* No opening token of the text has a closing token after it.
RECURSIVE PlaceholderFree(_)
PlaceholderFree(value) ==
    CASE value.type = "str" ->
             ~\E m, n \in DOMAIN value.text :
                 m < n /\ value.text[m] = "${{" /\ value.text[n] = "}}"
      [] value.type = "dict" ->
             \A k \in DOMAIN value.items : PlaceholderFree(value.items[k])
      [] value.type = "list" ->
             \A n \in DOMAIN value.elems : PlaceholderFree(value.elems[n])
      [] OTHER -> TRUE

\* C22: resolving a string without a placeholder returns it unchanged, so
\* resolving the result again changes nothing; a mapping or a list of such
\* strings comes back with the same structure and the same leaves.
C22_PlaceholderFreeUnchanged ==
    (resolved # <<>> /\ PlaceholderFree(template)) =>
        /\ resolved[1] = template
        /\ substitute_variables(resolved[1], job_outputs) = resolved[1]

\* A mapping that holds a list of an integer and a text with an opening
\* token that is never closed has been resolved.
C22_Witness ==
    /\ resolved # <<>>
    /\ template = DictValue([k \in {<<"a">>} |->
                      ListValue(<<IntValue(5), StrValue(<<"${{", " ", "x">>)>>)])
    /\ resolved[1] = template


\* The keys of a dotted path.
PathKeys(key) == Split(key, ".")

\* One path is the other or leads to it.
Touches(p, q) ==
    \/ StartsWith(PathKeys(p), PathKeys(q))
    \/ StartsWith(PathKeys(q), PathKeys(p))

\* The inputs hold the value at the dotted path.
ResolvesTo(key, value) ==
    /\ main.error = NoError
    /\ PathPresent(inputs, PathKeys(key))
    /\ ValueAt(inputs, PathKeys(key)) = value

\* C23: once the defaults followed by the overrides are merged, every path
\* of an override resolves to the override's value (no later override
\* touching the path), and every default path no override touches keeps
\* its default value.
C23_OverrideWins ==
    (pc \in {"main_work_dir", "exit"}
        /\ main.error \notin {InvalidInputFormat, InvalidLiteral}) =>
        LET defaults == get_default_inputs(workflow)
            overrides == main.cli_inputs
        IN /\ \A n \in DOMAIN overrides :
                  (\A m \in DOMAIN overrides :
                      m > n => ~Touches(overrides[m][1], overrides[n][1]))
                      => ResolvesTo(overrides[n][1], overrides[n][2])
           /\ \A d \in DOMAIN defaults :
                  (\A m \in DOMAIN overrides :
                      ~Touches(overrides[m][1], defaults[d][1]))
                      => ResolvesTo(defaults[d][1], defaults[d][2])

\* The value the claim gives an override's text: a boolean for a spelling
\* of true or false, the integer for decimal digits, the text otherwise.
Coerced(value) ==
    IF Len(value) = 1 /\ value[1] \in {"true", "True", "TRUE", "tRuE"}
    THEN BoolValue(TRUE)
    ELSE IF Len(value) = 1 /\ value[1] \in {"false", "False", "FALSE"}
    THEN BoolValue(FALSE)
    ELSE IF Len(value) = 1 /\ value[1] \in Numerals
    THEN IntValue(NumeralValue(value[1]))
    ELSE StrValue(value)

\* C24: parse_input_arg splits its argument at the first '=' into key and
\* value; true and false in any letter case become booleans, a value of
\* digits only becomes the integer it denotes, and any other value, one
\* with '=' in it included, stays the string as given.
C24_KeyAndCoercedValue ==
    (pc # "main" /\ \A n \in DOMAIN main.args.inputs : "=" \in Range(main.args.inputs[n])) =>
        /\ main.error \notin {InvalidInputFormat, InvalidLiteral}
        /\ Len(main.cli_inputs) = Len(main.args.inputs)
        /\ \A n \in DOMAIN main.args.inputs :
              LET arg == main.args.inputs[n]
              IN main.cli_inputs[n] =
                     <<SubSeq(arg, 1, FirstEquals(arg) - 1),
                       Coerced(SubSeq(arg, FirstEquals(arg) + 1, Len(arg)))>>

\* The first of the arguments that has no '=', 0 when each has one.
FirstMalformed ==
    IF \E n \in DOMAIN main.args.inputs : "=" \notin Range(main.args.inputs[n])
    THEN CHOOSE n \in DOMAIN main.args.inputs :
             /\ "=" \notin Range(main.args.inputs[n])
             /\ \A m \in 1..(n - 1) : "=" \in Range(main.args.inputs[m])
    ELSE 0

\* C25: an override without '=' makes parse_input_arg fail with the
\* 'Invalid input format' error (main() past its parsing has ended with
\* that error when the arguments before the override parse), and with that
\* error no working directory was created and no job or step has run.
C25_MalformedInputAbortsEarly ==
    /\ (pc # "main" /\ main.args.workflow_exists /\ FirstMalformed # 0
          /\ \A m \in 1..(FirstMalformed - 1) :
                 parse_input_arg(main.args.inputs[m]).error = NoError)
          => pc = "exit" /\ main.error = InvalidInputFormat
    /\ main.error = InvalidInputFormat =>
          /\ pc = "exit"
          /\ main.exit_code = 1
          /\ main.work_dir = "none"
          /\ host = FreshHost
          /\ dispatched = <<>>
          /\ recorded = <<>>
          /\ DOMAIN job_outputs = {}

\* main() has ended on the argument `a` that follows the override `a=x`.
C25_Witness ==
    /\ pc = "exit"
    /\ main.error = InvalidInputFormat
    /\ main.args.inputs = << <<"a", "=", "x">>, <<"a">> >>
    /\ main.work_dir = "none"
    /\ dispatched = <<>>

\* C26: the exit code is 0 exactly when run() returned the verdict success;
\* it is 1 when a job failed or was skipped, and 1 with no job run when the
\* path of the document does not exist.
C26_ExitCode ==
    pc = "exit" =>
        /\ main.exit_code \in {0, 1}
        /\ main.exit_code = 0 <=> (main.work_dir = "removed" /\ main.error = NoError /\ retval)
        /\ (\E j \in DOMAIN job_outputs : ~job_outputs[j].success) => main.exit_code = 1
        /\ ~main.args.workflow_exists =>
              /\ main.exit_code = 1
              /\ dispatched = <<>>
              /\ DOMAIN job_outputs = {}

\* main() has ended with exit code 1 after a run in which job a failed and
\* job b, which needs it, was skipped.
C26_Witness ==
    /\ pc = "exit"
    /\ main.exit_code = 1
    /\ main.error = NoError
    /\ DOMAIN job_outputs = {"a", "b"}
    /\ ~job_outputs["a"].success
    /\ job_outputs["a"] # DependencyFailed
    /\ \E k \in DOMAIN dispatched : dispatched[k].job = "a"
    /\ \A k \in DOMAIN dispatched : dispatched[k].job # "b"
    /\ job_outputs["b"] = DependencyFailed


\* The paths of one key that the sides of an expression name.
PathSides == { <<"inputs", ".">> \o k : k \in InputKeys }

\* C33: in `a == b` and `a != b` the right side is only parsed as a
\* literal: with a path on the right, the value at the left path is
\* compared with the text of the right path itself, not with the value
\* stored there.
C33_RightSideIsLiteral ==
    resolved # <<>> =>
        \A left \in PathSides, right \in PathSides :
            LET left_val == ValueAt(inputs, <<SubSeq(left, 3, Len(left))>>)
            IN /\ template = StrValue(BinaryTemplate(left, " == ", right))
                     => resolved[1] = Answer(left_val = StrValue(right))
               /\ template = StrValue(BinaryTemplate(left, " != ", right))
                     => resolved[1] = Answer(left_val # StrValue(right))

\* inputs.a and inputs.b hold the same word and `inputs.a == inputs.b` was
\* resolved to False.
C33_Witness ==
    /\ resolved = <<Answer(FALSE)>>
    /\ template = StrValue(BinaryTemplate(<<"inputs", ".", "a">>, " == ",
                                          <<"inputs", ".", "b">>))
    /\ <<"a">> \in DOMAIN inputs.items
    /\ <<"b">> \in DOMAIN inputs.items
    /\ inputs.items[<<"a">>] = StrValue(<<"x">>)
    /\ inputs.items[<<"b">>] = StrValue(<<"x">>)

\* The boolean a side denotes: the words true and false themselves, a path
\* true when the value there is neither missing nor empty.
Denotes(side) ==
    IF side = <<"true">> THEN TRUE
    ELSE IF side = <<"false">> THEN FALSE
    ELSE ValueAt(inputs, <<SubSeq(side, 3, Len(side))>>) # StrValue(<<>>)

\* C34: `a || b` resolves to the logical OR and `a && b` to the logical AND
\* of the booleans its sides denote: False for || when each side is the
\* word false or an empty or missing value, False for && when any side is.
C34_LogicalOrAnd ==
    resolved # <<>> =>
        \A left \in Sides, right \in Sides :
            /\ template = StrValue(BinaryTemplate(left, " || ", right))
                  => resolved[1] = Answer(Denotes(left) \/ Denotes(right))
            /\ template = StrValue(BinaryTemplate(left, " && ", right))
                  => resolved[1] = Answer(Denotes(left) /\ Denotes(right))


\* C31: execution is strictly sequential.  The jobs reach their terminal
\* states in the order the scheduler returned; the only job with steps
\* dispatched and no terminal state is the one at hand; the steps of a job
\* are dispatched one after the other in document order, and all of them
\* before the first step of any later job.
C31_StrictlySequential ==
    /\ recorded = SubSeq(job_order, 1, Len(recorded))
    /\ \A j \in Range(job_order) :
          (StepsDispatched(j) # {} /\ j \notin Range(recorded)) =>
              pc \in {"steps", "job_return"} /\ j = CurrentJob
    /\ \A k, m \in DOMAIN dispatched :
          k < m =>
              /\ IndexOf(job_order, dispatched[k].job) <= IndexOf(job_order, dispatched[m].job)
              /\ dispatched[k].job = dispatched[m].job =>
                    dispatched[k].step < dispatched[m].step
    /\ pc \in {"steps", "job_return"} =>
          /\ Len(recorded) = pos - 1
          /\ \A k \in DOMAIN dispatched :
                IndexOf(job_order, dispatched[k].job) <= pos

\* A run of three jobs has ended after two steps of each were dispatched
\* job by job.
C31_Witness ==
    /\ pc = "returned"
    /\ Len(job_order) = 3
    /\ recorded = job_order
    /\ Len(dispatched) = 6
    /\ \A n \in 1..3 :
          /\ dispatched[2 * n - 1] = [job |-> job_order[n], step |-> 1, error |-> NoError]
          /\ dispatched[2 * n].job = job_order[n]
          /\ dispatched[2 * n].step = 2

\* C32: nothing is retried.  No step of a job is dispatched twice, and a
\* step that raised (a non-zero exit, the timeout) stands once in the
\* history and its job is failed: the job at hand has success = False, and
\* so has the JobOutput recorded for it.
C32_NothingRetried ==
    /\ \A k, m \in DOMAIN dispatched :
          (dispatched[k].job = dispatched[m].job /\ dispatched[k].step = dispatched[m].step)
              => k = m
    /\ \A k \in DOMAIN dispatched :
          dispatched[k].error # NoError =>
              IF dispatched[k].job \in Range(recorded)
              THEN ~job_outputs[dispatched[k].job].success
              ELSE ~output.success

\* A live run has ended in which the one step dispatched for job a timed
\* out and the job was recorded as failed.
C32_Witness ==
    /\ ~dry_run
    /\ pc = "returned"
    /\ \E k \in DOMAIN dispatched :
          /\ dispatched[k] = [job |-> "a", step |-> 1, error |-> TimedOut]
          /\ StepsDispatched("a") = {k}
    /\ ~job_outputs["a"].success
    /\ job_outputs["a"].error = TimedOut

\* C35: scheduling and running never modify the loaded workflow: in every
\* step of get_job_order and of run() the document, with every job's needs
\* and steps, stays as it was.
C35_WorkflowUnchanged == [][workflow' = workflow]_vars

\* A run has ended in which the scheduler emptied the dependency set of a
\* job that has needs, and the job went through the dependency check.
C35_Witness ==
    /\ pc = "returned"
    /\ \E j \in Jobs :
          /\ Needs(j) # {}
          /\ dependencies[j] = {}
          /\ j \in DOMAIN job_outputs


\* The entries of the dispatch history in which a step of job j raised.
FailedSteps(j) == { k \in StepsDispatched(j) : dispatched[k].error # NoError }

\* The last of them.
LastFailedStep(j) == CHOOSE k \in FailedSteps(j) : \A m \in FailedSteps(j) : m <= k

\* C38: the error recorded for a job that failed by its steps is the error
\* of the step that failed it.  In a live run one step of the job raised,
\* it is the last step dispatched for the job, and the job's outputs are
\* the merged outputs of the steps before it; in a dry run the error is
\* that of the last step that raised; either way success is False.
C38_RecordedErrorIsStepError ==
    /\ \A j \in DOMAIN job_outputs :
          (FailedSteps(j) # {}) =>
              /\ ~job_outputs[j].success
              /\ job_outputs[j].error = dispatched[LastFailedStep(j)].error
              /\ ~dry_run =>
                    /\ Cardinality(FailedSteps(j)) = 1
                    /\ \A m \in StepsDispatched(j) : m <= LastFailedStep(j)
    /\ \A j \in DOMAIN job_outputs :
          (~job_outputs[j].success /\ job_outputs[j] # Skipped) => FailedSteps(j) # {}
    /\ (pc = "job_return" /\ ~output.success) =>
          /\ FailedSteps(CurrentJob) # {}
          /\ output.error = dispatched[LastFailedStep(CurrentJob)].error
          /\ output.outputs = MergedInOrder(step_outputs)
          /\ ~dry_run => Len(step_outputs) = dispatched[LastFailedStep(CurrentJob)].step - 1

\* A dry run has ended in which both steps of job a raised, each with an
\* error of its own, and the job is recorded with the second error.
C38_Witness ==
    /\ dry_run
    /\ pc = "returned"
    /\ workflow.steps["a"] = <<"run_nonstr", "run_list">>
    /\ Cardinality(FailedSteps("a")) = 2
    /\ ~job_outputs["a"].success
    /\ job_outputs["a"].error = NotAStringList


\* In this step of a live run on a tracked host a step of one of the kinds
\* is dispatched and returns.
ReturnsNow(kinds) ==
    /\ ~dry_run
    /\ host.tracked
    /\ pc = "steps"
    /\ CurrentSteps[i] \in kinds
    /\ Len(dispatched') = Len(dispatched) + 1
    /\ dispatched'[Len(dispatched')].error = NoError

\* The map the step that returns in this step of the run has returned.
ReturnedNow == step_outputs'[Len(step_outputs')]

\* The outputs-sink is neither removed nor cut: what it held is the
\* beginning of what it holds after the step.
SinkKept ==
    step_outputs_txt \in DOMAIN host.files =>
        /\ step_outputs_txt \in DOMAIN host'.files
        /\ StartsWith(host'.files[step_outputs_txt], host.files[step_outputs_txt])

\* C36: the outputs-sink is one file shared by all command steps and is
\* never cut or removed by the engine: the map a successful command step
\* returns holds every key written to the sink by any earlier step of the
\* run, of the same job or another, with the value of the last line for
\* the key.
C36_SinkSharedByAllSteps ==
    [][/\ SinkKept
       /\ ReturnsNow({"run"}) =>
             \A k \in SinkKeys(host.files) :
                 /\ k \in DOMAIN ReturnedNow
                 /\ ReturnedNow[k] = SinkValue(host'.files, k)]_vars

\* C36 as amended: the same, but a sink key named after a coordination file
\* that exists in the working directory has the file's trimmed content.
C36_SinkSharedUnlessCoordinationFile ==
    [][/\ SinkKept
       /\ ReturnsNow({"run"}) =>
             \A k \in SinkKeys(host.files) :
                 /\ k \in DOMAIN ReturnedNow
                 /\ ReturnedNow[k] =
                        IF k \in {HOSTNAME, SESSION_PORT, slug} \cap DOMAIN host'.files
                        THEN Trimmed(host'.files[k])
                        ELSE SinkValue(host'.files, k)]_vars

\* A live run has ended: the sink holds the one line k=v, which stood there
\* when job a was recorded, and the outputs recorded for job b, whose one
\* command ran after it, hold the key as well.
C36_Witness ==
    /\ ~dry_run
    /\ host.tracked
    /\ pc = "returned"
    /\ recorded = <<"a", "b">>
    /\ SinkLines(host.files) = 1
    /\ <<"k">> \in DOMAIN job_outputs["a"].outputs
    /\ workflow.steps["b"] = <<"uses_other", "run">>
    /\ job_outputs["b"].success
    /\ <<"k">> \in DOMAIN job_outputs["b"].outputs
    /\ job_outputs["b"].outputs[<<"k">>] = <<"v">>

====
